---- MODULE Spec2Model ----
(***************************************************************************)
(* Model of app/sort_app/placement_manager.py (NgramPlacementManager and   *)
(* split_ordered_ngrams_into_two_halfs).  A key sequence (KeySeq, a tuple  *)
(* of key indices) is a TLA+ sequence of naturals, a Python list is a      *)
(* sequence, Python's None is the value None below.  Every public method   *)
(* is an operator from the manager's fields to its fields after the call,  *)
(* its return value and the exception it raised; one action per method     *)
(* applies it.                                                             *)
(***************************************************************************)
EXTENDS Integers, Sequences, FiniteSets, TLC

VARIABLES
    all_ngrams,        \* NgramPlacementManager.all_ngrams (fixed after __init__)
    current_index,     \* NgramPlacementManager._current_index
    current_ngram,     \* NgramPlacementManager.current_ngram
    ordered_ngrams,    \* NgramPlacementManager.ordered_ngrams
    placement_state,   \* NgramPlacementManager.placement_state
    movement_history,  \* NgramPlacementManager._current_ngram_movement_history
    last_call,         \* the method called last
    returned,          \* what that call returned
    raised,            \* the exception that call raised, or NoException
    place_run,         \* number of calls since __init__, when all of them were
                       \* place_current_ngram(); NotARun after any other call
    notified,          \* the manager's fields as each refresh_callback() of the
                       \* last call found them, in the order of the invocations
    hands,             \* the Hands of the layout, NoHands without one
    key_seq,           \* the key sequence last classified
    arguments,         \* the arguments of the module-level function (of
                       \* app/effort.py) called last
    file_out,          \* the text of the file KeySequenceSortApp.file_out names,
                       \* FileMissing when there is no such file
    table,             \* the fields of the viewer's KeySequenceTable, NoTable
                       \* without one
    dct                \* the TwoWayDict handed to change_twowaydct_value,
                       \* NoDict without one

\* what belongs to the application around the manager
appVars ==
    << hands, key_seq, arguments, file_out, table, dct >>

vars ==
    << all_ngrams, current_index, current_ngram, ordered_ngrams, placement_state,
       movement_history, last_call, returned, raised, place_run, notified,
       hands, key_seq, arguments, file_out, table, dct >>

---------------------------------------------------------------------------
\* Bounds of the model

\* largest universe (len(all_ngrams)) the model constructs a manager with
MaxUniverse == 4

\* longest list load_state is called with
MaxLoad == 2

\* most ordered sequences of a resumed session
MaxOrdered == 7

\* longest undo history when narrowing in a resumed session
MaxNarrowing == 3

\* most lines of a session file that exists when the application starts
MaxLines == 2

\* longest key sequence classified
MaxKeySeq == 2

\* longest undo history a narrowing step may still push onto
MaxHistory == 2

---------------------------------------------------------------------------
\* Values

\* no KeySequenceSortApp, so no hands
NoHands ==
    << "no hands" >>

\* no KeySequenceTable has been made
NoTable ==
    << "no table" >>

\* no TwoWayDict has been made
NoDict ==
    << "no dict" >>

\* Path.exists() is false for file_out
FileMissing ==
    << "no file" >>

\* Python's None; no KeySeq, since key indices are >= 0
None == << -1 >>

\* the key sequence that test_loading_bad_state uses as one outside the universe
ForeignNgram == << 9999 >>

NoException == "none"

\* Python's None where the other values are ints (current_placement_index)
NoIndex == 0 - 1

\* place_run once a call other than place_current_ngram() was made
NotARun == 0 - 1

\* the universe that the tests build: [(0,), (1,), ..., (n-1,)]
UnigramUniverse(n) ==
    [i \in 1..n |-> << i - 1 >>]

\* the universes a manager is constructed with: distinct sequences, at least one
Universes ==
    { UnigramUniverse(n) : n \in 1..MaxUniverse }

ToSet(s) ==
    { s[i] : i \in 1..Len(s) }

\* Python's s[:n] for n >= 0
Prefix(s, n) ==
    SubSeq(s, 1, IF n < Len(s) THEN n ELSE Len(s))

\* the arguments load_state is called with: every list of at most MaxLoad
\* entries, each a sequence of the universe or the foreign one
LoadArguments ==
    UNION { [1..k -> ToSet(all_ngrams) \cup {ForeignNgram}] : k \in 0..MaxLoad }

---------------------------------------------------------------------------
\* Python list operations

\* list.index(x), 0-based; -1 stands for the ValueError of an absent x
index(s, x) ==
    IF \E i \in 1..Len(s) : s[i] = x
    THEN (CHOOSE i \in 1..Len(s) : s[i] = x /\ \A j \in 1..(i - 1) : s[j] # x) - 1
    ELSE -1

\* list.insert(i, x) for 0 <= i: x lands at 0-based index min(i, len)
insert(s, i, x) ==
    LET k == IF i < Len(s) THEN i ELSE Len(s)
    IN  SubSeq(s, 1, k) \o << x >> \o SubSeq(s, k + 1, Len(s))

\* list.remove(x) for an x that is present: drops its first occurrence
remove(s, x) ==
    LET k == index(s, x)
    IN  SubSeq(s, 1, k) \o SubSeq(s, k + 2, Len(s))

---------------------------------------------------------------------------
\* split_ordered_ngrams_into_two_halfs

\* the split with larger_size ignored: the left half is the larger one always
split_left_heavy(ordered_key_sequences, larger_size) ==
    LET n == Len(ordered_key_sequences)
        midpoint == (n + 1) \div 2
        low_effort_sequences == SubSeq(ordered_key_sequences, 1, midpoint)
        hight_effort_sequences == SubSeq(ordered_key_sequences, midpoint + 1, n)
    IN  [ highest_low |->
              IF low_effort_sequences # << >>
              THEN low_effort_sequences[Len(low_effort_sequences)]
              ELSE None,
          lowest_high |->
              IF hight_effort_sequences # << >>
              THEN hight_effort_sequences[1]
              ELSE None,
          low_effort_sequences |-> low_effort_sequences,
          hight_effort_sequences |-> hight_effort_sequences ]

\* the split taking highest_low from the front of the left half
split_highest_low_first(ordered_key_sequences, larger_size) ==
    LET n == Len(ordered_key_sequences)
        half == n \div 2
        midpoint == IF n % 2 # 0 /\ larger_size = "left" THEN half + 1 ELSE half
        low_effort_sequences == SubSeq(ordered_key_sequences, 1, midpoint)
        hight_effort_sequences == SubSeq(ordered_key_sequences, midpoint + 1, n)
    IN  [ highest_low |->
              IF low_effort_sequences # << >>
              THEN low_effort_sequences[1]
              ELSE None,
          lowest_high |->
              IF hight_effort_sequences # << >>
              THEN hight_effort_sequences[1]
              ELSE None,
          low_effort_sequences |-> low_effort_sequences,
          hight_effort_sequences |-> hight_effort_sequences ]

\* the split taking lowest_high from the end of the right half
split_lowest_high_last(ordered_key_sequences, larger_size) ==
    LET n == Len(ordered_key_sequences)
        half == n \div 2
        midpoint == IF n % 2 # 0 /\ larger_size = "left" THEN half + 1 ELSE half
        low_effort_sequences == SubSeq(ordered_key_sequences, 1, midpoint)
        hight_effort_sequences == SubSeq(ordered_key_sequences, midpoint + 1, n)
    IN  [ highest_low |->
              IF low_effort_sequences # << >>
              THEN low_effort_sequences[Len(low_effort_sequences)]
              ELSE None,
          lowest_high |->
              IF hight_effort_sequences # << >>
              THEN hight_effort_sequences[Len(hight_effort_sequences)]
              ELSE None,
          low_effort_sequences |-> low_effort_sequences,
          hight_effort_sequences |-> hight_effort_sequences ]

split_ordered_ngrams_into_two_halfs(ordered_key_sequences, larger_size) ==
    LET n == Len(ordered_key_sequences)
        half == n \div 2
        midpoint == IF n % 2 # 0 /\ larger_size = "left" THEN half + 1 ELSE half
        low_effort_sequences == SubSeq(ordered_key_sequences, 1, midpoint)
        hight_effort_sequences == SubSeq(ordered_key_sequences, midpoint + 1, n)
    IN  [ highest_low |->
              IF low_effort_sequences # << >>
              THEN low_effort_sequences[Len(low_effort_sequences)]
              ELSE None,
          lowest_high |->
              IF hight_effort_sequences # << >>
              THEN hight_effort_sequences[1]
              ELSE None,
          low_effort_sequences |-> low_effort_sequences,
          hight_effort_sequences |-> hight_effort_sequences ]

---------------------------------------------------------------------------
\* NgramPlacementManager

\* the manager's mutable fields, as one record
Manager ==
    [ current_index |-> current_index,
      current_ngram |-> current_ngram,
      ordered_ngrams |-> ordered_ngrams,
      placement_state |-> placement_state,
      movement_history |-> movement_history ]

\* what a call leaves behind: the fields, the return value, the exception
Outcome(m, ret, exc) ==
    [ manager |-> m, returned |-> ret, raised |-> exc ]

left_of_current(m) ==
    m.placement_state.highest_low

right_of_current(m) ==
    m.placement_state.lowest_high

ngrams_left_side_of_current(m) ==
    m.placement_state.low_effort_sequences

ngrams_right_side_of_current(m) ==
    m.placement_state.hight_effort_sequences

\* is_finished() with > for >=: one placement too many is expected
is_finished_strict(m) ==
    Len(m.ordered_ngrams) > Len(all_ngrams)

is_finished(m) ==
    Len(m.ordered_ngrams) >= Len(all_ngrams)

\* _start_placing_next_ngram() that leaves the undo history as it is
start_placing_keeps_history(m) ==
    IF m.current_index >= Len(all_ngrams)
    THEN Outcome(m, None, "IndexError")
    ELSE Outcome(
             [ m EXCEPT
                 !.current_ngram = all_ngrams[m.current_index + 1],
                 !.placement_state =
                     split_ordered_ngrams_into_two_halfs(m.ordered_ngrams, "right") ],
             None, NoException)

\* all_ngrams[_current_index] raises IndexError before anything is assigned
start_placing_next_ngram(m) ==
    IF m.current_index >= Len(all_ngrams)
    THEN Outcome(m, None, "IndexError")
    ELSE Outcome(
             [ m EXCEPT
                 !.current_ngram = all_ngrams[m.current_index + 1],
                 !.placement_state =
                     split_ordered_ngrams_into_two_halfs(m.ordered_ngrams, "right"),
                 !.movement_history = << >> ],
             None, NoException)

\* returns an int, or NoIndex for Python's None
current_placement_index(m) ==
    LET left == left_of_current(m)
        right == right_of_current(m)
    IN  IF is_finished(m) THEN NoIndex
        ELSE IF left # None THEN index(m.ordered_ngrams, left) + 1
        ELSE IF right # None THEN index(m.ordered_ngrams, right)
        ELSE NoIndex

\* place_current_ngram(), lines 71-78, with the left neighbour taken for the
\* right one's place: the sequence lands before its left neighbour
insert_current_ngram_before_left(m) ==
    LET left == left_of_current(m)
        right == right_of_current(m)
    IN  IF left # None
        THEN insert(m.ordered_ngrams, index(m.ordered_ngrams, left), m.current_ngram)
        ELSE IF right # None
        THEN insert(m.ordered_ngrams, index(m.ordered_ngrams, right), m.current_ngram)
        ELSE Append(m.ordered_ngrams, m.current_ngram)

\* place_current_ngram(), lines 71-78: ordered_ngrams with current_ngram in it
insert_current_ngram(m) ==
    LET left == left_of_current(m)
        right == right_of_current(m)
    IN  IF left # None
        THEN insert(m.ordered_ngrams, index(m.ordered_ngrams, left) + 1, m.current_ngram)
        ELSE IF right # None
        THEN insert(m.ordered_ngrams, index(m.ordered_ngrams, right), m.current_ngram)
        ELSE Append(m.ordered_ngrams, m.current_ngram)

place_current_ngram(m) ==
    LET left == left_of_current(m)
        right == right_of_current(m)
        placed ==
            [ m EXCEPT
                !.ordered_ngrams = insert_current_ngram(m),
                !.current_index = @ + 1 ]
        started == start_placing_next_ngram(placed)
    IN  IF is_finished(m) THEN Outcome(m, None, NoException)
        ELSE IF left # None /\ index(m.ordered_ngrams, left) < 0
             THEN Outcome(m, None, "ValueError")
        ELSE IF left = None /\ right # None /\ index(m.ordered_ngrams, right) < 0
             THEN Outcome(m, None, "ValueError")
        ELSE IF is_finished(placed) THEN Outcome(placed, m.current_ngram, NoException)
        ELSE IF started.raised # NoException THEN started
        ELSE Outcome(started.manager, m.current_ngram, NoException)

\* move_left() without its check that a left neighbour exists
move_left_unguarded(m) ==
    IF is_finished(m)
    THEN Outcome(m, None, NoException)
    ELSE Outcome(
             [ m EXCEPT
                 !.movement_history = Append(@, m.placement_state),
                 !.placement_state =
                     split_ordered_ngrams_into_two_halfs(
                         ngrams_left_side_of_current(m), "right") ],
             None, NoException)

\* move_left() splitting with larger_size="left", as move_right() does
move_left_left_heavy(m) ==
    IF left_of_current(m) = None \/ is_finished(m)
    THEN Outcome(m, None, NoException)
    ELSE Outcome(
             [ m EXCEPT
                 !.movement_history = Append(@, m.placement_state),
                 !.placement_state =
                     split_ordered_ngrams_into_two_halfs(
                         ngrams_left_side_of_current(m), "left") ],
             None, NoException)

move_left(m) ==
    IF left_of_current(m) = None \/ is_finished(m)
    THEN Outcome(m, None, NoException)
    ELSE Outcome(
             [ m EXCEPT
                 !.movement_history = Append(@, m.placement_state),
                 !.placement_state =
                     split_ordered_ngrams_into_two_halfs(
                         ngrams_left_side_of_current(m), "right") ],
             None, NoException)

\* move_right() splitting all of ordered_ngrams, not the right window
move_right_splits_all(m) ==
    IF right_of_current(m) = None \/ is_finished(m)
    THEN Outcome(m, None, NoException)
    ELSE Outcome(
             [ m EXCEPT
                 !.movement_history = Append(@, m.placement_state),
                 !.placement_state =
                     split_ordered_ngrams_into_two_halfs(m.ordered_ngrams, "left") ],
             None, NoException)

move_right(m) ==
    IF right_of_current(m) = None \/ is_finished(m)
    THEN Outcome(m, None, NoException)
    ELSE Outcome(
             [ m EXCEPT
                 !.movement_history = Append(@, m.placement_state),
                 !.placement_state =
                     split_ordered_ngrams_into_two_halfs(
                         ngrams_right_side_of_current(m), "left") ],
             None, NoException)

\* move_back() with pop(0) for pop(): the oldest state is restored
move_back_pops_oldest(m) ==
    IF is_finished(m) THEN Outcome(m, None, NoException)
    ELSE IF m.movement_history # << >>
    THEN Outcome(
             [ m EXCEPT
                 !.placement_state = m.movement_history[1],
                 !.movement_history = SubSeq(@, 2, Len(@)) ],
             None, NoException)
    ELSE Outcome(m, None, NoException)

\* move_back() without its is_finished() check
move_back_unguarded(m) ==
    IF m.movement_history # << >>
    THEN Outcome(
             [ m EXCEPT
                 !.placement_state = m.movement_history[Len(m.movement_history)],
                 !.movement_history = SubSeq(@, 1, Len(@) - 1) ],
             None, NoException)
    ELSE Outcome(m, None, NoException)

move_back(m) ==
    IF is_finished(m) THEN Outcome(m, None, NoException)
    ELSE IF m.movement_history # << >>
    THEN Outcome(
             [ m EXCEPT
                 !.placement_state = m.movement_history[Len(m.movement_history)],
                 !.movement_history = SubSeq(@, 1, Len(@) - 1) ],
             None, NoException)
    ELSE Outcome(m, None, NoException)

reset_current_ngram(m) ==
    IF is_finished(m) THEN Outcome(m, None, NoException)
    ELSE start_placing_next_ngram(m)

\* previous_ngram() without its check of the cursor: at cursor 0 Python's
\* all_ngrams[-1] is the last sequence of the universe
previous_ngram_unguarded(m) ==
    LET prev_ngram ==
            IF m.current_index < 1 THEN all_ngrams[Len(all_ngrams)]
            ELSE all_ngrams[m.current_index]
        removed ==
            [ m EXCEPT
                !.ordered_ngrams = remove(@, prev_ngram),
                !.current_index = @ - 1 ]
    IN  IF m.current_index - 1 >= Len(all_ngrams)
        THEN Outcome(m, None, "IndexError")
        ELSE IF index(m.ordered_ngrams, prev_ngram) < 0
             THEN Outcome(m, None, "ValueError")
        ELSE start_placing_next_ngram(removed)

\* previous_ngram() taking back the last entry of ordered_ngrams
previous_ngram_pops_last(m) ==
    LET removed ==
            [ m EXCEPT
                !.ordered_ngrams = SubSeq(@, 1, Len(@) - 1),
                !.current_index = @ - 1 ]
    IN  IF m.current_index < 1 THEN reset_current_ngram(m)
        ELSE IF m.current_index - 1 >= Len(all_ngrams)
             THEN Outcome(m, None, "IndexError")
        ELSE IF m.ordered_ngrams = << >>
             THEN Outcome(m, None, "IndexError")
        ELSE start_placing_next_ngram(removed)

previous_ngram(m) ==
    LET prev_ngram == all_ngrams[m.current_index]
        removed ==
            [ m EXCEPT
                !.ordered_ngrams = remove(@, prev_ngram),
                !.current_index = @ - 1 ]
    IN  IF m.current_index < 1 THEN reset_current_ngram(m)
        ELSE IF m.current_index - 1 >= Len(all_ngrams)
             THEN Outcome(m, None, "IndexError")
        ELSE IF index(m.ordered_ngrams, prev_ngram) < 0
             THEN Outcome(m, None, "ValueError")
        ELSE start_placing_next_ngram(removed)

\* load_state() checking only that every entry is a sequence of the universe
load_state_subset_check(m, new_ordered_ngrams) ==
    LET n_new == Len(new_ordered_ngrams)
        loaded ==
            [ m EXCEPT !.ordered_ngrams = new_ordered_ngrams, !.current_index = n_new ]
    IN  IF ~(ToSet(new_ordered_ngrams) \subseteq ToSet(all_ngrams))
        THEN Outcome(m, None, "ValueError")
        ELSE IF ~is_finished(loaded) THEN start_placing_next_ngram(loaded)
        ELSE Outcome(loaded, None, NoException)

\* load_state() that does not begin the placement of the next sequence
load_state_without_start(m, new_ordered_ngrams) ==
    LET n_new == Len(new_ordered_ngrams)
        loaded ==
            [ m EXCEPT !.ordered_ngrams = new_ordered_ngrams, !.current_index = n_new ]
    IN  IF ToSet(new_ordered_ngrams) # ToSet(Prefix(all_ngrams, n_new))
        THEN Outcome(m, None, "ValueError")
        ELSE Outcome(loaded, None, NoException)

load_state(m, new_ordered_ngrams) ==
    LET n_new == Len(new_ordered_ngrams)
        loaded ==
            [ m EXCEPT !.ordered_ngrams = new_ordered_ngrams, !.current_index = n_new ]
    IN  IF ToSet(new_ordered_ngrams) # ToSet(Prefix(all_ngrams, n_new))
        THEN Outcome(m, None, "ValueError")
        ELSE IF ~is_finished(loaded) THEN start_placing_next_ngram(loaded)
        ELSE Outcome(loaded, None, NoException)

---------------------------------------------------------------------------
\* refresh_callback(): the fields of the manager at each invocation, per method

\* _start_placing_next_ngram() calling refresh_callback() one statement early,
\* before the undo history is cleared
refresh_callback_before_history_cleared(m) ==
    IF start_placing_next_ngram(m).raised # NoException THEN << >>
    ELSE << [ start_placing_next_ngram(m).manager EXCEPT
                !.movement_history = m.movement_history ] >>

\* _start_placing_next_ngram(): once, as its last statement
refresh_callback_in_start_placing_next_ngram(m) ==
    IF start_placing_next_ngram(m).raised # NoException THEN << >>
    ELSE << start_placing_next_ngram(m).manager >>

\* the fields as __init__ has assigned them when it calls
\* _start_placing_next_ngram(); placement_state is not assigned yet
Allocated ==
    [ current_index |-> 0,
      current_ngram |-> << >>,
      ordered_ngrams |-> << >>,
      placement_state |-> None,
      movement_history |-> << >> ]

refresh_callback_in_init ==
    refresh_callback_in_start_placing_next_ngram(Allocated)

\* place_current_ngram(): in _start_placing_next_ngram() when sequences are
\* left, else once after the cursor has advanced
refresh_callback_in_place_current_ngram(m) ==
    LET placed ==
            [ m EXCEPT
                !.ordered_ngrams = insert_current_ngram(m),
                !.current_index = @ + 1 ]
    IN  IF is_finished(m) \/ place_current_ngram(m).raised = "ValueError" THEN << >>
        ELSE IF ~is_finished(placed)
             THEN refresh_callback_in_start_placing_next_ngram(placed)
        ELSE << placed >>

refresh_callback_in_move_left(m) ==
    IF left_of_current(m) = None \/ is_finished(m) THEN << >>
    ELSE << move_left(m).manager >>

refresh_callback_in_move_right(m) ==
    IF right_of_current(m) = None \/ is_finished(m) THEN << >>
    ELSE << move_right(m).manager >>

refresh_callback_in_move_back(m) ==
    IF is_finished(m) THEN << >>
    ELSE << move_back(m).manager >>

\* reset_current_ngram(): in _start_placing_next_ngram(), then once more
refresh_callback_in_reset_current_ngram(m) ==
    IF is_finished(m) THEN << >>
    ELSE IF start_placing_next_ngram(m).raised # NoException THEN << >>
    ELSE refresh_callback_in_start_placing_next_ngram(m)
             \o << start_placing_next_ngram(m).manager >>

\* previous_ngram(): as reset_current_ngram() at cursor 0; else in
\* _start_placing_next_ngram(), then once more
refresh_callback_in_previous_ngram(m) ==
    LET removed ==
            [ m EXCEPT
                !.ordered_ngrams = remove(@, all_ngrams[m.current_index]),
                !.current_index = @ - 1 ]
    IN  IF m.current_index < 1 THEN refresh_callback_in_reset_current_ngram(m)
        ELSE IF previous_ngram(m).raised # NoException THEN << >>
        ELSE refresh_callback_in_start_placing_next_ngram(removed)
                 \o << start_placing_next_ngram(removed).manager >>

\* load_state(): none when it raises; else in _start_placing_next_ngram()
\* when sequences are left, else once after the assignments
refresh_callback_in_load_state(m, new_ordered_ngrams) ==
    LET loaded ==
            [ m EXCEPT
                !.ordered_ngrams = new_ordered_ngrams,
                !.current_index = Len(new_ordered_ngrams) ]
    IN  IF load_state(m, new_ordered_ngrams).raised # NoException THEN << >>
        ELSE IF ~is_finished(loaded)
             THEN refresh_callback_in_start_placing_next_ngram(loaded)
        ELSE << loaded >>

\* ordered_ngrams_area_widths() taking the whole list as the right side
area_widths_right_all_from_n(m) ==
    LET idx == current_placement_index(m)
    IN  IF is_finished(m) \/ idx = NoIndex THEN << 0, 50, 50, 0 >>
        ELSE LET n == Len(m.ordered_ngrams)
                 left_all == idx
                 right_all == n
                 left_search_area == Len(ngrams_left_side_of_current(m))
                 right_search_area == Len(ngrams_right_side_of_current(m))
                 left_side == left_all - left_search_area
                 right_side == right_all - right_search_area
             IN  << left_side, left_search_area, right_search_area, right_side >>

\* ordered_ngrams_area_widths(): the widths of the four areas of the position bar
ordered_ngrams_area_widths(m) ==
    LET idx == current_placement_index(m)
    IN  IF is_finished(m) \/ idx = NoIndex THEN << 0, 50, 50, 0 >>
        ELSE LET n == Len(m.ordered_ngrams)
                 left_all == idx
                 right_all == n - left_all
                 left_search_area == Len(ngrams_left_side_of_current(m))
                 right_search_area == Len(ngrams_right_side_of_current(m))
                 left_side == left_all - left_search_area
                 right_side == right_all - right_search_area
             IN  << left_side, left_search_area, right_search_area, right_side >>

---------------------------------------------------------------------------
\* The state machine: __init__, then any public method, one call at a time

\* __init__(permutations): cursor 0, nothing ordered, first sequence begun
Init ==
    /\ all_ngrams \in Universes
    /\ current_index = 0
    /\ current_ngram = all_ngrams[1]
    /\ ordered_ngrams = << >>
    /\ placement_state = split_ordered_ngrams_into_two_halfs(<< >>, "right")
    /\ movement_history = << >>
    /\ last_call = "__init__"
    /\ returned = None
    /\ raised = NoException
    /\ place_run = 0
    /\ notified = refresh_callback_in_init
    /\ hands = NoHands
    /\ key_seq = << >>
    /\ arguments = << >>
    /\ file_out = FileMissing
    /\ table = NoTable
    /\ dct = NoDict

\* the call `method` ended with `out`
Call(method, out) ==
    /\ current_index' = out.manager.current_index
    /\ current_ngram' = out.manager.current_ngram
    /\ ordered_ngrams' = out.manager.ordered_ngrams
    /\ placement_state' = out.manager.placement_state
    /\ movement_history' = out.manager.movement_history
    /\ last_call' = method
    /\ returned' = out.returned
    /\ raised' = out.raised
    /\ all_ngrams' = all_ngrams

\* a narrowing call may push only while the history is below the model's bound
MayPush(out) ==
    Len(out.manager.movement_history) <= MaxHistory

PlaceCurrentNgram ==
    /\ Call("place_current_ngram", place_current_ngram(Manager))
    /\ place_run' =
           IF place_run = NotARun THEN NotARun
           ELSE IF place_run > Len(all_ngrams) THEN place_run
           ELSE place_run + 1
    /\ notified' = refresh_callback_in_place_current_ngram(Manager)
    /\ UNCHANGED appVars

MoveLeft ==
    /\ MayPush(move_left(Manager))
    /\ Call("move_left", move_left(Manager))
    /\ place_run' = NotARun
    /\ notified' = refresh_callback_in_move_left(Manager)
    /\ UNCHANGED appVars

MoveRight ==
    /\ MayPush(move_right(Manager))
    /\ Call("move_right", move_right(Manager))
    /\ place_run' = NotARun
    /\ notified' = refresh_callback_in_move_right(Manager)
    /\ UNCHANGED appVars

MoveBack ==
    /\ Call("move_back", move_back(Manager))
    /\ place_run' = NotARun
    /\ notified' = refresh_callback_in_move_back(Manager)
    /\ UNCHANGED appVars

ResetCurrentNgram ==
    /\ Call("reset_current_ngram", reset_current_ngram(Manager))
    /\ place_run' = NotARun
    /\ notified' = refresh_callback_in_reset_current_ngram(Manager)
    /\ UNCHANGED appVars

PreviousNgram ==
    /\ Call("previous_ngram", previous_ngram(Manager))
    /\ place_run' = NotARun
    /\ notified' = refresh_callback_in_previous_ngram(Manager)
    /\ UNCHANGED appVars

LoadState ==
    /\ \E new_ordered_ngrams \in LoadArguments :
           /\ Call("load_state", load_state(Manager, new_ordered_ngrams))
           /\ notified' = refresh_callback_in_load_state(Manager, new_ordered_ngrams)
    /\ place_run' = NotARun
    /\ UNCHANGED appVars

OrderedNgramsAreaWidths ==
    /\ Call("ordered_ngrams_area_widths",
            Outcome(Manager, ordered_ngrams_area_widths(Manager), NoException))
    /\ place_run' = NotARun
    /\ notified' = << >>
    /\ UNCHANGED appVars

Next ==
    \/ PlaceCurrentNgram
    \/ MoveLeft
    \/ MoveRight
    \/ MoveBack
    \/ ResetCurrentNgram
    \/ PreviousNgram
    \/ LoadState
    \/ OrderedNgramsAreaWidths

Spec ==
    Init /\ [][Next]_vars

---------------------------------------------------------------------------
\* A resumed session: __init__, load_state() with the first sequences of the
\* universe in their order, then narrowing and undoing only

\* the manager's fields after __init__
Constructed ==
    [ current_index |-> 0,
      current_ngram |-> all_ngrams[1],
      ordered_ngrams |-> << >>,
      placement_state |-> split_ordered_ngrams_into_two_halfs(<< >>, "right"),
      movement_history |-> << >> ]

InitResumed ==
    /\ all_ngrams \in { UnigramUniverse(n) : n \in 1..(MaxOrdered + 1) }
    /\ \E n \in 0..Len(all_ngrams) :
           LET out == load_state(Constructed, Prefix(all_ngrams, n))
           IN  /\ current_index = out.manager.current_index
               /\ current_ngram = out.manager.current_ngram
               /\ ordered_ngrams = out.manager.ordered_ngrams
               /\ placement_state = out.manager.placement_state
               /\ movement_history = out.manager.movement_history
               /\ returned = out.returned
               /\ raised = out.raised
               /\ notified = refresh_callback_in_load_state(Constructed, Prefix(all_ngrams, n))
    /\ last_call = "load_state"
    /\ place_run = NotARun
    /\ hands = NoHands
    /\ key_seq = << >>
    /\ arguments = << >>
    /\ file_out = FileMissing
    /\ table = NoTable
    /\ dct = NoDict

\* a narrowing call may push only while the history is below the model's bound
MayNarrow(out) ==
    Len(out.manager.movement_history) <= MaxNarrowing

ResumedMoveLeft ==
    /\ MayNarrow(move_left(Manager))
    /\ Call("move_left", move_left(Manager))
    /\ place_run' = NotARun
    /\ notified' = refresh_callback_in_move_left(Manager)
    /\ UNCHANGED appVars

ResumedMoveRight ==
    /\ MayNarrow(move_right(Manager))
    /\ Call("move_right", move_right(Manager))
    /\ place_run' = NotARun
    /\ notified' = refresh_callback_in_move_right(Manager)
    /\ UNCHANGED appVars

ResumedMoveBack ==
    /\ Call("move_back", move_back(Manager))
    /\ place_run' = NotARun
    /\ notified' = refresh_callback_in_move_back(Manager)
    /\ UNCHANGED appVars

NextResumed ==
    \/ ResumedMoveLeft
    \/ ResumedMoveRight
    \/ ResumedMoveBack

SpecNarrowing ==
    InitResumed /\ [][NextResumed]_vars

---------------------------------------------------------------------------
\* Text: a str is a sequence of characters, a text file is one str

Digits ==
    << "0", "1", "2", "3", "4", "5", "6", "7", "8", "9" >>

Whitespace ==
    { " ", "\n", "\t", "\r" }

\* str(n) of an int: its decimal digits, with a sign when negative
RECURSIVE str(_)
str(n) ==
    IF n < 0 THEN << "-" >> \o str(0 - n)
    ELSE IF n < 10 THEN << Digits[n + 1] >>
    ELSE str(n \div 10) \o << Digits[(n % 10) + 1] >>

\* sep.join(parts)
RECURSIVE join(_, _)
join(sep, parts) ==
    IF parts = << >> THEN << >>
    ELSE IF Len(parts) = 1 THEN parts[1]
    ELSE parts[1] \o sep \o join(sep, Tail(parts))

\* the 1-based position of the first character of s that is in chars, 0 if none
find(s, chars) ==
    IF \E i \in 1..Len(s) : s[i] \in chars
    THEN CHOOSE i \in 1..Len(s) :
             s[i] \in chars /\ \A j \in 1..(i - 1) : s[j] \notin chars
    ELSE 0

\* f.readlines(): the lines, each with its newline, the last one maybe without
RECURSIVE readlines(_)
readlines(text) ==
    LET k == find(text, { "\n" })
    IN  IF text = << >> THEN << >>
        ELSE IF k = 0 THEN << text >>
        ELSE << SubSeq(text, 1, k) >> \o readlines(SubSeq(text, k + 1, Len(text)))

\* s.strip(): s without its leading and trailing whitespace
strip(s) ==
    LET kept == { i \in 1..Len(s) : s[i] \notin Whitespace }
    IN  IF kept = { } THEN << >>
        ELSE SubSeq(s, CHOOSE i \in kept : \A j \in kept : i <= j,
                       CHOOSE i \in kept : \A j \in kept : i >= j)

\* s.split(sep) for a separator of one character: "" splits into [""]
RECURSIVE split(_, _)
split(s, sep) ==
    LET k == find(s, { sep })
    IN  IF k = 0 THEN << s >>
        ELSE << SubSeq(s, 1, k - 1) >> \o split(SubSeq(s, k + 1, Len(s)), sep)

\* whether int(s) accepts s: digits, after an optional sign, inside whitespace
is_int_literal(s) ==
    LET t == strip(s)
        digits == IF t # << >> /\ t[1] \in { "-", "+" } THEN Tail(t) ELSE t
    IN  /\ digits # << >>
        /\ \A i \in 1..Len(digits) : \E d \in 1..10 : Digits[d] = digits[i]

RECURSIVE digits_value(_)
digits_value(digits) ==
    IF digits = << >> THEN 0
    ELSE 10 * digits_value(SubSeq(digits, 1, Len(digits) - 1))
             + ((CHOOSE d \in 1..10 : Digits[d] = digits[Len(digits)]) - 1)

\* int(s) for an s that int() accepts
int(s) ==
    LET t == strip(s)
    IN  IF t[1] = "-" THEN 0 - digits_value(Tail(t))
        ELSE IF t[1] = "+" THEN digits_value(Tail(t))
        ELSE digits_value(t)

---------------------------------------------------------------------------
\* create_permutations (app/effort.py): the universe of a layout

\* a Hand by the keys of its dicts; adict[key] for a dict is a function
Hand(symbols, fingers, matrix_positions) ==
    [ symbols |-> symbols, fingers |-> fingers, matrix_positions |-> matrix_positions ]

\* sorted(keys) for a set of ints
RECURSIVE sorted(_)
sorted(keys) ==
    IF keys = { } THEN << >>
    ELSE LET least == CHOOSE k \in keys : \A other \in keys : k <= other
         IN  << least >> \o sorted(keys \ { least })

get_union_of_keys(left, right) ==
    sorted(DOMAIN left.symbols \cup DOMAIN right.symbols)

\* a typability test that asks only that each key is on some hand
permutation_is_typable_on_either_hand(left, right, permutation) ==
    \A i \in 1..Len(permutation) :
        \E hand \in { left, right } : permutation[i] \in DOMAIN hand.symbols

permutation_is_typable(left, right, permutation) ==
    \E hand \in { left, right } :
        \A i \in 1..Len(permutation) : permutation[i] \in DOMAIN hand.symbols

\* the lists of s, one after the other, as one list
RECURSIVE chain(_)
chain(s) ==
    IF s = << >> THEN << >> ELSE s[1] \o chain(Tail(s))

\* a product whose first position advances fastest
RECURSIVE product_first_fastest(_, _)
product_first_fastest(key_indices, repeat) ==
    IF repeat = 0 THEN << << >> >>
    ELSE LET shorter == product_first_fastest(key_indices, repeat - 1)
         IN  chain([ i \in 1..Len(shorter) |->
                       [ j \in 1..Len(key_indices) |->
                           << key_indices[j] >> \o shorter[i] ] ])

\* itertools.product(key_indices, repeat=seq_length), the last position
\* advancing fastest
RECURSIVE product(_, _)
product(key_indices, repeat) ==
    IF repeat = 0 THEN << << >> >>
    ELSE LET shorter == product(key_indices, repeat - 1)
         IN  chain([ i \in 1..Len(shorter) |->
                       [ j \in 1..Len(key_indices) |->
                           Append(shorter[i], key_indices[j]) ] ])

create_permutations(left, right, sequence_lengths) ==
    LET key_indices == get_union_of_keys(left, right)
        typable(seq) == permutation_is_typable(left, right, seq)
    IN  chain([ i \in 1..Len(sequence_lengths) |->
                  SelectSeq(product(key_indices, sequence_lengths[i]), typable) ])

---------------------------------------------------------------------------
\* Effort classification (app/effort.py).  An enum member is its value, a
\* DirectionType its value times ten; a function gives a Result

\* Python's None where an enum member is expected
NoMember == 0 - 1

\* FingerType
Thumb == 1
Index == 2
Middle == 3
Ring == 4
Pinky == 5

\* RepeatType
REP == 1
SFS == 2
SFB == 3
RSFT == 4
SFT == 5

\* RowDiffType
RowDiff2u == 1
MiddleBelowIndex2u == 2
MiddleBelowPinky1u == 3
IndexBelowPinky2u == 4
MiddleBelowRing2u == 5
PinkyBelowRing2u == 6
MiddleBelowPinky2u == 7
RingBelowPinky1u == 8
RingBelowPinky2u == 9

\* DirectionType
Redirect1 == 4
InwardsPinkyMiddle == 8
InwardsPinkyRing == 15
OutwardsMiddlePinky == 25
Redirect2 == 31
OutwardsRingPinky == 70
Redirect3 == 100
Redirect4 == 250

\* what a call gives: its return value and the exception it raised
Result(ret, exc) ==
    [ returned |-> ret, raised |-> exc ]

\* adict.get(key) for a dict of strings, "" standing for None
get(adict, key) ==
    IF key \in DOMAIN adict THEN adict[key] ELSE ""

\* FingerType.from_str: KeyError for any other letter
from_str(finger) ==
    IF finger = "t" THEN Result(Thumb, NoException)
    ELSE IF finger = "i" THEN Result(Index, NoException)
    ELSE IF finger = "m" THEN Result(Middle, NoException)
    ELSE IF finger = "r" THEN Result(Ring, NoException)
    ELSE IF finger = "p" THEN Result(Pinky, NoException)
    ELSE Result(NoMember, "KeyError")

\* Hand.get_finger
get_finger(hand, key_idx) ==
    IF get(hand.fingers, key_idx) = "" THEN Result(NoMember, NoException)
    ELSE from_str(get(hand.fingers, key_idx))

\* get_rowdiff_for_bigram taking the finger of the smaller row for the lower one
get_rowdiff_for_bigram_higher_as_lower(finger1, row1, finger2, row2) ==
    LET lower_finger == IF row2 < row1 THEN finger2 ELSE finger1
        higher_finger == IF row2 > row1 THEN finger2 ELSE finger1
        diff == IF row1 >= row2 THEN row1 - row2 ELSE row2 - row1
    IN  IF diff = 0 THEN NoMember
        ELSE IF lower_finger = Middle /\ higher_finger = Index
             THEN (IF diff = 2 THEN MiddleBelowIndex2u ELSE NoMember)
        ELSE IF lower_finger = Middle /\ higher_finger = Pinky
             THEN (IF diff = 1 THEN MiddleBelowPinky1u
                   ELSE IF diff = 2 THEN MiddleBelowPinky2u ELSE NoMember)
        ELSE IF lower_finger = Pinky /\ higher_finger = Ring
             THEN (IF diff = 2 THEN PinkyBelowRing2u ELSE NoMember)
        ELSE IF lower_finger = Ring /\ higher_finger = Pinky
             THEN (IF diff = 1 THEN RingBelowPinky1u
                   ELSE IF diff = 2 THEN RingBelowPinky2u ELSE NoMember)
        ELSE IF lower_finger = Index /\ higher_finger = Pinky
             THEN (IF diff = 2 THEN IndexBelowPinky2u ELSE NoMember)
        ELSE IF lower_finger = Middle /\ higher_finger = Ring
             THEN (IF diff = 2 THEN MiddleBelowRing2u ELSE NoMember)
        ELSE IF diff = 2 THEN RowDiff2u
        ELSE NoMember

get_rowdiff_for_bigram(finger1, row1, finger2, row2) ==
    LET lower_finger == IF row2 > row1 THEN finger2 ELSE finger1
        higher_finger == IF row2 < row1 THEN finger2 ELSE finger1
        diff == IF row1 >= row2 THEN row1 - row2 ELSE row2 - row1
    IN  IF diff = 0 THEN NoMember
        ELSE IF lower_finger = Middle /\ higher_finger = Index
             THEN (IF diff = 2 THEN MiddleBelowIndex2u ELSE NoMember)
        ELSE IF lower_finger = Middle /\ higher_finger = Pinky
             THEN (IF diff = 1 THEN MiddleBelowPinky1u
                   ELSE IF diff = 2 THEN MiddleBelowPinky2u ELSE NoMember)
        ELSE IF lower_finger = Pinky /\ higher_finger = Ring
             THEN (IF diff = 2 THEN PinkyBelowRing2u ELSE NoMember)
        ELSE IF lower_finger = Ring /\ higher_finger = Pinky
             THEN (IF diff = 1 THEN RingBelowPinky1u
                   ELSE IF diff = 2 THEN RingBelowPinky2u ELSE NoMember)
        ELSE IF lower_finger = Index /\ higher_finger = Pinky
             THEN (IF diff = 2 THEN IndexBelowPinky2u ELSE NoMember)
        ELSE IF lower_finger = Middle /\ higher_finger = Ring
             THEN (IF diff = 2 THEN MiddleBelowRing2u ELSE NoMember)
        ELSE IF diff = 2 THEN RowDiff2u
        ELSE NoMember

get_direction_for_bigram(finger1, finger2) ==
    IF finger1 = Pinky /\ finger2 = Ring THEN InwardsPinkyRing
    ELSE IF finger1 = Pinky /\ finger2 = Middle THEN InwardsPinkyMiddle
    ELSE IF finger1 = Middle /\ finger2 = Pinky THEN OutwardsMiddlePinky
    ELSE IF finger1 = Ring /\ finger2 = Pinky THEN OutwardsRingPinky
    ELSE NoMember

\* get_direction_for_trigram with min() for max() in its last line
get_direction_for_trigram_min(finger1, finger2, finger3) ==
    LET fingers == << finger1, finger2, finger3 >>
        bigram1 == get_direction_for_bigram(finger1, finger2)
        bigram2 == get_direction_for_bigram(finger2, finger3)
    IN  IF fingers \in { << Ring, Index, Middle >>, << Middle, Ring, Index >>,
                         << Index, Ring, Middle >>, << Middle, Index, Ring >> }
        THEN Redirect1
        ELSE IF fingers \in { << Middle, Index, Pinky >>, << Ring, Index, Pinky >>,
                              << Pinky, Index, Middle >>, << Pinky, Index, Ring >> }
        THEN Redirect2
        ELSE IF fingers \in { << Index, Pinky, Middle >>, << Middle, Pinky, Index >>,
                              << Index, Pinky, Ring >>, << Ring, Pinky, Index >> }
        THEN Redirect3
        ELSE IF fingers \in { << Pinky, Middle, Ring >>, << Middle, Pinky, Ring >>,
                              << Ring, Pinky, Middle >>, << Ring, Middle, Pinky >> }
        THEN Redirect4
        ELSE IF bigram1 = NoMember THEN bigram2
        ELSE IF bigram2 = NoMember THEN bigram1
        ELSE IF bigram2 < bigram1 THEN bigram2
        ELSE bigram1

\* get_direction_for_trigram with the results of its second and third list
\* of triples exchanged
get_direction_for_trigram_index_levels_exchanged(finger1, finger2, finger3) ==
    LET fingers == << finger1, finger2, finger3 >>
        bigram1 == get_direction_for_bigram(finger1, finger2)
        bigram2 == get_direction_for_bigram(finger2, finger3)
    IN  IF fingers \in { << Ring, Index, Middle >>, << Middle, Ring, Index >>,
                         << Index, Ring, Middle >>, << Middle, Index, Ring >> }
        THEN Redirect1
        ELSE IF fingers \in { << Middle, Index, Pinky >>, << Ring, Index, Pinky >>,
                              << Pinky, Index, Middle >>, << Pinky, Index, Ring >> }
        THEN Redirect3
        ELSE IF fingers \in { << Index, Pinky, Middle >>, << Middle, Pinky, Index >>,
                              << Index, Pinky, Ring >>, << Ring, Pinky, Index >> }
        THEN Redirect2
        ELSE IF fingers \in { << Pinky, Middle, Ring >>, << Middle, Pinky, Ring >>,
                              << Ring, Pinky, Middle >>, << Ring, Middle, Pinky >> }
        THEN Redirect4
        ELSE IF bigram1 = NoMember THEN bigram2
        ELSE IF bigram2 = NoMember THEN bigram1
        ELSE IF bigram2 > bigram1 THEN bigram2
        ELSE bigram1

get_direction_for_trigram(finger1, finger2, finger3) ==
    LET fingers == << finger1, finger2, finger3 >>
        bigram1 == get_direction_for_bigram(finger1, finger2)
        bigram2 == get_direction_for_bigram(finger2, finger3)
    IN  IF fingers \in { << Ring, Index, Middle >>, << Middle, Ring, Index >>,
                         << Index, Ring, Middle >>, << Middle, Index, Ring >> }
        THEN Redirect1
        ELSE IF fingers \in { << Middle, Index, Pinky >>, << Ring, Index, Pinky >>,
                              << Pinky, Index, Middle >>, << Pinky, Index, Ring >> }
        THEN Redirect2
        ELSE IF fingers \in { << Index, Pinky, Middle >>, << Middle, Pinky, Index >>,
                              << Index, Pinky, Ring >>, << Ring, Pinky, Index >> }
        THEN Redirect3
        ELSE IF fingers \in { << Pinky, Middle, Ring >>, << Middle, Pinky, Ring >>,
                              << Ring, Pinky, Middle >>, << Ring, Middle, Pinky >> }
        THEN Redirect4
        ELSE IF bigram1 = NoMember THEN bigram2
        ELSE IF bigram2 = NoMember THEN bigram1
        ELSE IF bigram2 > bigram1 THEN bigram2
        ELSE bigram1

\* the first exception that get_finger raises for the keys, in their order
RECURSIVE finger_error(_, _)
finger_error(hand, keys) ==
    IF keys = << >> THEN NoException
    ELSE IF get_finger(hand, keys[1]).raised # NoException
    THEN get_finger(hand, keys[1]).raised
    ELSE finger_error(hand, Tail(keys))

\* Hand.get_repeats_tuple telling the repeat within a one-finger trigram by
\* its first two keys only
Hand_get_repeats_tuple_first_repeat_only(hand, keys) ==
    LET f0 == get_finger(hand, keys[1]).returned
        f1 == get_finger(hand, keys[2]).returned
        f2 == get_finger(hand, keys[3]).returned
    IN  IF DOMAIN hand.fingers = { } THEN Result(None, NoException)
        ELSE IF Len(keys) = 0 THEN Result(None, NoException)
        ELSE IF Len(keys) > 3 THEN Result(None, "ValueError")
        ELSE IF Len(keys) = 1 THEN Result(None, NoException)
        ELSE IF finger_error(hand, SubSeq(keys, 1, 2)) # NoException
             THEN Result(None, finger_error(hand, SubSeq(keys, 1, 2)))
        ELSE IF Len(keys) = 2
             THEN (IF f0 = f1 /\ f0 # NoMember
                   THEN (IF keys[1] = keys[2] THEN Result(<< REP, f0 >>, NoException)
                         ELSE Result(<< SFB, f0 >>, NoException))
                   ELSE Result(None, NoException))
        ELSE IF finger_error(hand, keys) # NoException
             THEN Result(None, finger_error(hand, keys))
        ELSE IF f2 = NoMember \/ f0 = NoMember THEN Result(None, NoException)
        ELSE IF f0 = f2 /\ f0 # f1 THEN Result(<< SFS, f0 >>, NoException)
        ELSE IF f0 = f2 /\ f0 = f1
             THEN (IF keys[1] = keys[2] /\ keys[2] = keys[3]
                   THEN Result(<< REP, f0 >>, NoException)
                   ELSE IF keys[1] = keys[2]
                   THEN Result(<< RSFT, f0 >>, NoException)
                   ELSE Result(<< SFT, f0 >>, NoException))
        ELSE IF f0 = f1
             THEN (IF keys[1] = keys[2] THEN Result(<< REP, f0 >>, NoException)
                   ELSE Result(<< SFB, f0 >>, NoException))
        ELSE IF f1 = f2 THEN Result(<< SFB, f2 >>, NoException)
        ELSE Result(None, NoException)

\* Hand.get_repeats_tuple: (RepeatType, FingerType) or None
Hand_get_repeats_tuple(hand, keys) ==
    LET f0 == get_finger(hand, keys[1]).returned
        f1 == get_finger(hand, keys[2]).returned
        f2 == get_finger(hand, keys[3]).returned
    IN  IF DOMAIN hand.fingers = { } THEN Result(None, NoException)
        ELSE IF Len(keys) = 0 THEN Result(None, NoException)
        ELSE IF Len(keys) > 3 THEN Result(None, "ValueError")
        ELSE IF Len(keys) = 1 THEN Result(None, NoException)
        ELSE IF finger_error(hand, SubSeq(keys, 1, 2)) # NoException
             THEN Result(None, finger_error(hand, SubSeq(keys, 1, 2)))
        ELSE IF Len(keys) = 2
             THEN (IF f0 = f1 /\ f0 # NoMember
                   THEN (IF keys[1] = keys[2] THEN Result(<< REP, f0 >>, NoException)
                         ELSE Result(<< SFB, f0 >>, NoException))
                   ELSE Result(None, NoException))
        ELSE IF finger_error(hand, keys) # NoException
             THEN Result(None, finger_error(hand, keys))
        ELSE IF f2 = NoMember \/ f0 = NoMember THEN Result(None, NoException)
        ELSE IF f0 = f2 /\ f0 # f1 THEN Result(<< SFS, f0 >>, NoException)
        ELSE IF f0 = f2 /\ f0 = f1
             THEN (IF keys[1] = keys[2] /\ keys[2] = keys[3]
                   THEN Result(<< REP, f0 >>, NoException)
                   ELSE IF keys[1] = keys[2] \/ keys[2] = keys[3]
                   THEN Result(<< RSFT, f0 >>, NoException)
                   ELSE Result(<< SFT, f0 >>, NoException))
        ELSE IF f0 = f1
             THEN (IF keys[1] = keys[2] THEN Result(<< REP, f0 >>, NoException)
                   ELSE Result(<< SFB, f0 >>, NoException))
        ELSE IF f1 = f2 THEN Result(<< SFB, f2 >>, NoException)
        ELSE Result(None, NoException)

\* Hand.get_rowdiff: a tuple of one or two RowDiffType, or None
Hand_get_rowdiff(hand, keys) ==
    LET finger1 == get_finger(hand, keys[1]).returned
        finger2 == get_finger(hand, keys[2]).returned
        finger3 == get_finger(hand, keys[3]).returned
        known(i) == keys[i] \in DOMAIN hand.matrix_positions
        row(i) == hand.matrix_positions[keys[i]][2]
        diff1 == get_rowdiff_for_bigram(finger1, row(1), finger2, row(2))
        diff2 == get_rowdiff_for_bigram(finger2, row(2), finger3, row(3))
    IN  IF Len(keys) = 1 THEN Result(None, NoException)
        ELSE IF Len(keys) > 3 THEN Result(None, "ValueError")
        ELSE IF Len(keys) = 0 THEN Result(None, "IndexError")
        ELSE IF finger_error(hand, SubSeq(keys, 1, 2)) # NoException
             THEN Result(None, finger_error(hand, SubSeq(keys, 1, 2)))
        ELSE IF finger1 = NoMember \/ finger2 = NoMember THEN Result(None, NoException)
        ELSE IF ~known(1) \/ ~known(2) THEN Result(None, NoException)
        ELSE IF Len(keys) = 2
             THEN (IF diff1 = NoMember THEN Result(None, NoException)
                   ELSE Result(<< diff1 >>, NoException))
        ELSE IF finger_error(hand, keys) # NoException
             THEN Result(None, finger_error(hand, keys))
        ELSE IF finger3 = NoMember THEN Result(None, NoException)
        ELSE IF ~known(3) THEN Result(None, NoException)
        ELSE IF diff2 = NoMember
             THEN (IF diff1 = NoMember THEN Result(None, NoException)
                   ELSE Result(<< diff1 >>, NoException))
        ELSE IF diff1 = NoMember THEN Result(<< diff2 >>, NoException)
        ELSE Result(<< diff1, diff2 >>, NoException)

\* Hand.get_direction returning early only for the empty sequence: with one
\* key, key_seq[1] raises IndexError after the finger of key_seq[0] is found
Hand_get_direction_guard_below_one(hand, keys) ==
    LET finger1 == get_finger(hand, keys[1]).returned
        finger2 == get_finger(hand, keys[2]).returned
        finger3 == get_finger(hand, keys[3]).returned
    IN  IF Len(keys) < 1 THEN Result(NoMember, NoException)
        ELSE IF Len(keys) > 3 THEN Result(NoMember, "ValueError")
        ELSE IF Len(keys) = 1
             THEN (IF finger_error(hand, keys) # NoException
                   THEN Result(NoMember, finger_error(hand, keys))
                   ELSE Result(NoMember, "IndexError"))
        ELSE IF finger_error(hand, SubSeq(keys, 1, 2)) # NoException
             THEN Result(NoMember, finger_error(hand, SubSeq(keys, 1, 2)))
        ELSE IF finger1 = NoMember \/ finger2 = NoMember
             THEN Result(NoMember, NoException)
        ELSE IF Len(keys) = 2
             THEN Result(get_direction_for_bigram(finger1, finger2), NoException)
        ELSE IF finger_error(hand, keys) # NoException
             THEN Result(NoMember, finger_error(hand, keys))
        ELSE IF finger3 = NoMember THEN Result(NoMember, NoException)
        ELSE Result(get_direction_for_trigram(finger1, finger2, finger3), NoException)

\* Hand.get_direction: a DirectionType, or NoMember for None
Hand_get_direction(hand, keys) ==
    LET finger1 == get_finger(hand, keys[1]).returned
        finger2 == get_finger(hand, keys[2]).returned
        finger3 == get_finger(hand, keys[3]).returned
    IN  IF Len(keys) <= 1 THEN Result(NoMember, NoException)
        ELSE IF Len(keys) > 3 THEN Result(NoMember, "ValueError")
        ELSE IF finger_error(hand, SubSeq(keys, 1, 2)) # NoException
             THEN Result(NoMember, finger_error(hand, SubSeq(keys, 1, 2)))
        ELSE IF finger1 = NoMember \/ finger2 = NoMember
             THEN Result(NoMember, NoException)
        ELSE IF Len(keys) = 2
             THEN Result(get_direction_for_bigram(finger1, finger2), NoException)
        ELSE IF finger_error(hand, keys) # NoException
             THEN Result(NoMember, finger_error(hand, keys))
        ELSE IF finger3 = NoMember THEN Result(NoMember, NoException)
        ELSE Result(get_direction_for_trigram(finger1, finger2, finger3), NoException)

\* the greatest member of a non-empty tuple of enum members
max(members) ==
    CHOOSE m \in ToSet(members) : \A other \in ToSet(members) : m >= other

\* Hands.get_repeats_tuple comparing the two tuples by their fingers first
Hands_get_repeats_tuple_by_finger_first(both, keys) ==
    LET left == Hand_get_repeats_tuple(both.left, keys)
        right == Hand_get_repeats_tuple(both.right, keys)
        left_repeats == left.returned
        right_repeats == right.returned
    IN  IF left.raised # NoException THEN left
        ELSE IF right.raised # NoException THEN right
        ELSE IF left_repeats = right_repeats THEN left
        ELSE IF left_repeats = None THEN right
        ELSE IF right_repeats = None THEN left
        ELSE IF \/ right_repeats[2] > left_repeats[2]
                \/ /\ right_repeats[2] = left_repeats[2]
                   /\ right_repeats[1] > left_repeats[1]
             THEN right
        ELSE left

\* Hands.get_repeats_tuple: max() of two tuples compares them entry by entry
Hands_get_repeats_tuple(both, keys) ==
    LET left == Hand_get_repeats_tuple(both.left, keys)
        right == Hand_get_repeats_tuple(both.right, keys)
        left_repeats == left.returned
        right_repeats == right.returned
    IN  IF left.raised # NoException THEN left
        ELSE IF right.raised # NoException THEN right
        ELSE IF left_repeats = right_repeats THEN left
        ELSE IF left_repeats = None THEN right
        ELSE IF right_repeats = None THEN left
        ELSE IF \/ right_repeats[1] > left_repeats[1]
                \/ /\ right_repeats[1] = left_repeats[1]
                   /\ right_repeats[2] > left_repeats[2]
             THEN right
        ELSE left

\* Hands.get_rowdiff with max(left, right), which compares the tuples entry
\* by entry (a tuple that is the beginning of the other being the lesser)
Hands_get_rowdiff_without_key(both, keys) ==
    LET left == Hand_get_rowdiff(both.left, keys)
        right == Hand_get_rowdiff(both.right, keys)
        left_rowdiff == left.returned
        right_rowdiff == right.returned
    IN  IF left.raised # NoException THEN left
        ELSE IF right.raised # NoException THEN right
        ELSE IF left_rowdiff = right_rowdiff THEN left
        ELSE IF left_rowdiff = None THEN right
        ELSE IF right_rowdiff = None THEN left
        ELSE IF right_rowdiff[1] > left_rowdiff[1] THEN right
        ELSE IF right_rowdiff[1] < left_rowdiff[1] THEN left
        ELSE IF Len(left_rowdiff) = 1 THEN right
        ELSE IF Len(right_rowdiff) = 1 THEN left
        ELSE IF right_rowdiff[2] > left_rowdiff[2] THEN right
        ELSE left

\* Hands.get_rowdiff: max(left, right, key=max)
Hands_get_rowdiff(both, keys) ==
    LET left == Hand_get_rowdiff(both.left, keys)
        right == Hand_get_rowdiff(both.right, keys)
        left_rowdiff == left.returned
        right_rowdiff == right.returned
    IN  IF left.raised # NoException THEN left
        ELSE IF right.raised # NoException THEN right
        ELSE IF left_rowdiff = right_rowdiff THEN left
        ELSE IF left_rowdiff = None THEN right
        ELSE IF right_rowdiff = None THEN left
        ELSE IF max(right_rowdiff) > max(left_rowdiff) THEN right
        ELSE left

Hands_get_direction(both, keys) ==
    LET left == Hand_get_direction(both.left, keys)
        right == Hand_get_direction(both.right, keys)
        direction_left == left.returned
        direction_right == right.returned
    IN  IF left.raised # NoException THEN left
        ELSE IF right.raised # NoException THEN right
        ELSE IF direction_left = direction_right THEN left
        ELSE IF direction_left = NoMember THEN right
        ELSE IF direction_right = NoMember THEN left
        ELSE IF direction_right > direction_left THEN right
        ELSE left

---------------------------------------------------------------------------
\* Classifying key sequences under a layout

\* one hand of a layout over the keys 0 and 1: with symbols only, with
\* fingers, with fingers and matrix positions, and with one finger left out
\* and one that FingerType does not know
EffortHands ==
    { Hand((0 :> "a" @@ 1 :> "b"), << >>, << >>),
      Hand((0 :> "a" @@ 1 :> "b"), (0 :> "p" @@ 1 :> "r"), << >>),
      Hand((0 :> "a" @@ 1 :> "b"), (0 :> "m" @@ 1 :> "p"),
           (0 :> << 0, 0 >> @@ 1 :> << 1, 2 >>)),
      Hand((0 :> "a" @@ 1 :> "b"), (0 :> "" @@ 1 :> "x"), (0 :> << 0, 1 >>)) }

EffortLayouts ==
    { [ left |-> left, right |-> right ] : left \in EffortHands, right \in EffortHands }

\* the key sequences classified: over the keys of the hands and a key of neither
KeySeqs ==
    UNION { [ 1..n -> { 0, 1, 2 } ] : n \in 0..MaxKeySeq }

\* get_hands_data(config): a layout and no manager
InitEffort ==
    /\ hands \in EffortLayouts
    /\ key_seq = << >>
    /\ arguments = << >>
    /\ all_ngrams = << >>
    /\ current_index = 0
    /\ current_ngram = << >>
    /\ ordered_ngrams = << >>
    /\ placement_state = None
    /\ movement_history = << >>
    /\ last_call = "get_hands_data"
    /\ returned = None
    /\ raised = NoException
    /\ place_run = NotARun
    /\ notified = << >>
    /\ file_out = FileMissing
    /\ table = NoTable
    /\ dct = NoDict

\* the call `method` on `keys` ended with `result`
Classified(method, keys, result) ==
    /\ key_seq' = keys
    /\ last_call' = method
    /\ returned' = result.returned
    /\ raised' = result.raised
    /\ UNCHANGED << all_ngrams, current_index, current_ngram, ordered_ngrams,
                    placement_state, movement_history, place_run, notified,
                    hands, arguments, file_out, table, dct >>

HandGetRepeatsTuple ==
    \E hand \in { hands.left, hands.right } : \E keys \in KeySeqs :
        Classified("Hand.get_repeats_tuple", keys, Hand_get_repeats_tuple(hand, keys))

HandGetRowdiff ==
    \E hand \in { hands.left, hands.right } : \E keys \in KeySeqs :
        Classified("Hand.get_rowdiff", keys, Hand_get_rowdiff(hand, keys))

HandGetDirection ==
    \E hand \in { hands.left, hands.right } : \E keys \in KeySeqs :
        Classified("Hand.get_direction", keys, Hand_get_direction(hand, keys))

HandsGetRepeatsTuple ==
    \E keys \in KeySeqs :
        Classified("Hands.get_repeats_tuple", keys, Hands_get_repeats_tuple(hands, keys))

HandsGetRowdiff ==
    \E keys \in KeySeqs :
        Classified("Hands.get_rowdiff", keys, Hands_get_rowdiff(hands, keys))

HandsGetDirection ==
    \E keys \in KeySeqs :
        Classified("Hands.get_direction", keys, Hands_get_direction(hands, keys))

NextEffort ==
    \/ HandGetRepeatsTuple
    \/ HandGetRowdiff
    \/ HandGetDirection
    \/ HandsGetRepeatsTuple
    \/ HandsGetRowdiff
    \/ HandsGetDirection

SpecEffort ==
    InitEffort /\ [][NextEffort]_vars

---------------------------------------------------------------------------
\* Classifying one key sequence of up to MaxSeqLen keys under a layout of
\* three keys

\* the longest key sequence handed to a classification
MaxSeqLen == 4

\* the symbols of a hand with the keys 0, 1 and 2
ThreeSymbols ==
    (0 :> "a" @@ 1 :> "b" @@ 2 :> "c")

\* hands of three keys: one finger for all keys; two keys on one finger and
\* the third on another; a key without a finger; a key without a matrix
\* position; symbols only; a finger letter that FingerType does not know;
\* three fingers, the thumb among them
OneFingerHand ==
    Hand(ThreeSymbols, (0 :> "i" @@ 1 :> "i" @@ 2 :> "i"),
         (0 :> << 0, 0 >> @@ 1 :> << 0, 1 >> @@ 2 :> << 0, 2 >>))

TwoFingerHand ==
    Hand(ThreeSymbols, (0 :> "m" @@ 1 :> "m" @@ 2 :> "p"),
         (0 :> << 1, 2 >> @@ 1 :> << 1, 0 >> @@ 2 :> << 4, 1 >>))

MissingFingerHand ==
    Hand(ThreeSymbols, (0 :> "r" @@ 1 :> "p"),
         (0 :> << 3, 2 >> @@ 1 :> << 4, 0 >> @@ 2 :> << 2, 1 >>))

MissingPositionHand ==
    Hand(ThreeSymbols, (0 :> "m" @@ 1 :> "r" @@ 2 :> "p"),
         (0 :> << 2, 2 >> @@ 1 :> << 3, 0 >>))

SymbolsOnlyHand ==
    Hand(ThreeSymbols, << >>, << >>)

UnknownFingerHand ==
    Hand(ThreeSymbols, (0 :> "x" @@ 1 :> "p"), << >>)

ThumbHand ==
    Hand(ThreeSymbols, (0 :> "m" @@ 1 :> "r" @@ 2 :> "t"),
         (0 :> << 2, 2 >> @@ 1 :> << 3, 0 >> @@ 2 :> << 0, 0 >>))

TrigramLayouts ==
    { [ left |-> OneFingerHand, right |-> TwoFingerHand ],
      [ left |-> TwoFingerHand, right |-> OneFingerHand ],
      [ left |-> TwoFingerHand, right |-> MissingPositionHand ],
      [ left |-> MissingFingerHand, right |-> SymbolsOnlyHand ],
      [ left |-> SymbolsOnlyHand, right |-> SymbolsOnlyHand ],
      [ left |-> UnknownFingerHand, right |-> MissingFingerHand ],
      [ left |-> MissingPositionHand, right |-> MissingFingerHand ],
      [ left |-> TwoFingerHand, right |-> ThumbHand ] }

TrigramKeySeqs ==
    UNION { [ 1..n -> DOMAIN ThreeSymbols ] : n \in 0..MaxSeqLen }

\* get_hands_data(config) and the key sequence to classify
InitClassification ==
    /\ hands \in TrigramLayouts
    /\ key_seq \in TrigramKeySeqs
    /\ arguments = << >>
    /\ all_ngrams = << >>
    /\ current_index = 0
    /\ current_ngram = << >>
    /\ ordered_ngrams = << >>
    /\ placement_state = None
    /\ movement_history = << >>
    /\ last_call = "get_hands_data"
    /\ returned = None
    /\ raised = NoException
    /\ place_run = NotARun
    /\ notified = << >>
    /\ file_out = FileMissing
    /\ table = NoTable
    /\ dct = NoDict

RepeatsOfHand ==
    \E hand \in { hands.left, hands.right } :
        Classified("Hand.get_repeats_tuple", key_seq, Hand_get_repeats_tuple(hand, key_seq))

RowdiffOfHand ==
    \E hand \in { hands.left, hands.right } :
        Classified("Hand.get_rowdiff", key_seq, Hand_get_rowdiff(hand, key_seq))

DirectionOfHand ==
    \E hand \in { hands.left, hands.right } :
        Classified("Hand.get_direction", key_seq, Hand_get_direction(hand, key_seq))

RepeatsOfHands ==
    Classified("Hands.get_repeats_tuple", key_seq, Hands_get_repeats_tuple(hands, key_seq))

RowdiffOfHands ==
    Classified("Hands.get_rowdiff", key_seq, Hands_get_rowdiff(hands, key_seq))

DirectionOfHands ==
    Classified("Hands.get_direction", key_seq, Hands_get_direction(hands, key_seq))

NextClassification ==
    \/ RepeatsOfHand
    \/ RowdiffOfHand
    \/ DirectionOfHand
    \/ RepeatsOfHands
    \/ RowdiffOfHands
    \/ DirectionOfHands

SpecClassification ==
    InitClassification /\ [][NextClassification]_vars

---------------------------------------------------------------------------
\* The module-level functions of app/effort.py on fingers and rows

\* the greatest row of a matrix position
MaxRow == 3

\* the members of FingerType
FingerTypes ==
    { Thumb, Index, Middle, Ring, Pinky }

Rows ==
    0..MaxRow

\* app.effort is imported and nothing is called yet
InitFingers ==
    /\ hands = NoHands
    /\ key_seq = << >>
    /\ arguments = << >>
    /\ all_ngrams = << >>
    /\ current_index = 0
    /\ current_ngram = << >>
    /\ ordered_ngrams = << >>
    /\ placement_state = None
    /\ movement_history = << >>
    /\ last_call = "import app.effort"
    /\ returned = NoMember
    /\ raised = NoException
    /\ place_run = NotARun
    /\ notified = << >>
    /\ file_out = FileMissing
    /\ table = NoTable
    /\ dct = NoDict

\* the call function(args) returned ret
Called(function, args, ret) ==
    /\ arguments' = args
    /\ last_call' = function
    /\ returned' = ret
    /\ raised' = NoException
    /\ UNCHANGED << all_ngrams, current_index, current_ngram, ordered_ngrams,
                    placement_state, movement_history, place_run, notified,
                    hands, key_seq, file_out, table, dct >>

GetRowdiffForBigram ==
    \E finger1, finger2 \in FingerTypes : \E row1, row2 \in Rows :
        Called("get_rowdiff_for_bigram", << finger1, row1, finger2, row2 >>,
               get_rowdiff_for_bigram(finger1, row1, finger2, row2))

GetDirectionForBigram ==
    \E finger1, finger2 \in FingerTypes :
        Called("get_direction_for_bigram", << finger1, finger2 >>,
               get_direction_for_bigram(finger1, finger2))

GetDirectionForTrigram ==
    \E finger1, finger2, finger3 \in FingerTypes :
        Called("get_direction_for_trigram", << finger1, finger2, finger3 >>,
               get_direction_for_trigram(finger1, finger2, finger3))

NextFingers ==
    \/ GetRowdiffForBigram
    \/ GetDirectionForBigram
    \/ GetDirectionForTrigram

SpecFingers ==
    InitFingers /\ [][NextFingers]_vars

---------------------------------------------------------------------------
\* The permutations of a layout

\* the greatest key index of a layout
MaxKey == 3

\* a left and a right hand with symbols for any keys up to MaxKey
PermutationLayouts ==
    { [ left |-> Hand([ key \in left_keys |-> "l" ], << >>, << >>),
        right |-> Hand([ key \in right_keys |-> "r" ], << >>, << >>) ] :
          left_keys \in SUBSET (0..MaxKey), right_keys \in SUBSET (0..MaxKey) }

\* the values of sequence_lengths
SequenceLengths ==
    { << >>, << 1 >>, << 2 >>, << 3 >>, << 1, 2 >>, << 2, 1 >>, << 1, 2, 3 >> }

\* a layout and the lengths asked for
InitPermutations ==
    /\ hands \in PermutationLayouts
    /\ arguments \in SequenceLengths
    /\ key_seq = << >>
    /\ all_ngrams = << >>
    /\ current_index = 0
    /\ current_ngram = << >>
    /\ ordered_ngrams = << >>
    /\ placement_state = None
    /\ movement_history = << >>
    /\ last_call = "get_hands_data"
    /\ returned = None
    /\ raised = NoException
    /\ place_run = NotARun
    /\ notified = << >>
    /\ file_out = FileMissing
    /\ table = NoTable
    /\ dct = NoDict

CreatePermutations ==
    /\ last_call' = "create_permutations"
    /\ returned' = create_permutations(hands.left, hands.right, arguments)
    /\ raised' = NoException
    /\ UNCHANGED << all_ngrams, current_index, current_ngram, ordered_ngrams,
                    placement_state, movement_history, place_run, notified,
                    hands, key_seq, arguments, file_out, table, dct >>

\* NgramTableViewerApp.__init__: self.permutations
NgramTableViewerApp_permutations(both) ==
    create_permutations(both.left, both.right, << 1, 2, 3 >>)

NgramTableViewerAppInit ==
    /\ last_call' = "NgramTableViewerApp.__init__"
    /\ returned' = NgramTableViewerApp_permutations(hands)
    /\ raised' = NoException
    /\ UNCHANGED << all_ngrams, current_index, current_ngram, ordered_ngrams,
                    placement_state, movement_history, place_run, notified,
                    hands, key_seq, arguments, file_out, table, dct >>

NextPermutations ==
    \/ CreatePermutations
    \/ NgramTableViewerAppInit

SpecPermutations ==
    InitPermutations /\ [][NextPermutations]_vars

---------------------------------------------------------------------------
\* KeySequenceSortApp (app/sort_app/sort_app.py): saving and loading a session

\* action_save() ending no line: the newline after each sequence forgotten
action_save_without_newline(m) ==
    chain([ i \in 1..Len(m.ordered_ngrams) |->
              join(<< "," >>, [ j \in 1..Len(m.ordered_ngrams[i]) |->
                                  str(m.ordered_ngrams[i][j]) ]) ])

\* action_save(): the text file_out holds afterwards, one line per ordered
\* sequence; opening with "w" discards what the file held
action_save(m) ==
    chain([ i \in 1..Len(m.ordered_ngrams) |->
              join(<< "," >>, [ j \in 1..Len(m.ordered_ngrams[i]) |->
                                  str(m.ordered_ngrams[i][j]) ])
                  \o << "\n" >> ])

\* line.strip().split(","), per line of the file
tokens_of(text) ==
    [ i \in 1..Len(readlines(text)) |-> split(strip(readlines(text)[i]), ",") ]

\* whether int() accepts every token of the file
is_parsable(text) ==
    \A i \in 1..Len(tokens_of(text)) :
        \A j \in 1..Len(tokens_of(text)[i]) : is_int_literal(tokens_of(text)[i][j])

\* key_seqs of load_from_file(), for a file int() accepts every token of
key_seqs_of(text) ==
    [ i \in 1..Len(tokens_of(text)) |->
        [ j \in 1..Len(tokens_of(text)[i]) |-> int(tokens_of(text)[i][j]) ] ]

\* how often x occurs in the list s
count(s, x) ==
    Cardinality({ i \in 1..Len(s) : s[i] = x })

\* Counter(key_seqs).most_common(1)[0][0]: of the sequences occurring most
\* often, the one that occurs first
most_common(key_seqs) ==
    key_seqs[CHOOSE i \in 1..Len(key_seqs) :
                 /\ \A j \in 1..Len(key_seqs) :
                        count(key_seqs, key_seqs[j]) <= count(key_seqs, key_seqs[i])
                 /\ \A j \in 1..(i - 1) :
                        count(key_seqs, key_seqs[j]) < count(key_seqs, key_seqs[i])]

\* action_place_ngram(): place_current_ngram() unless finished; returns None
action_place_ngram(m) ==
    IF is_finished(m) THEN Outcome(m, None, NoException)
    ELSE Outcome(place_current_ngram(m).manager, None, place_current_ngram(m).raised)

\* what load_from_file() leaves behind: the manager's fields, the exception,
\* which method of the manager it called, and what the exception names
Loaded(m, exc, called, message) ==
    [ manager |-> m, returned |-> None, raised |-> exc,
      called |-> called, message |-> message ]

\* load_from_file() that hands every file it can parse to load_state()
load_from_file_without_duplicate_check(m, text) ==
    IF text = FileMissing
    THEN Loaded(action_place_ngram(m).manager, action_place_ngram(m).raised,
                "action_place_ngram", None)
    ELSE IF ~is_parsable(text) THEN Loaded(m, "ValueError", "nothing", None)
    ELSE IF key_seqs_of(text) = << >> THEN Loaded(m, NoException, "nothing", None)
    ELSE Loaded(load_state(m, key_seqs_of(text)).manager,
                load_state(m, key_seqs_of(text)).raised, "load_state", None)

load_from_file(m, text) ==
    IF text = FileMissing
    THEN Loaded(action_place_ngram(m).manager, action_place_ngram(m).raised,
                "action_place_ngram", None)
    ELSE IF ~is_parsable(text) THEN Loaded(m, "ValueError", "nothing", None)
    ELSE IF key_seqs_of(text) = << >> THEN Loaded(m, NoException, "nothing", None)
    ELSE LET key_seqs == key_seqs_of(text)
             most_common_ngram == most_common(key_seqs)
             repeats == count(key_seqs, most_common_ngram)
         IN  IF repeats > 1
             THEN Loaded(m, "DuplicateValuesError", "nothing",
                         [ most_common_ngram |-> most_common_ngram,
                           file_out |-> "file_out" ])
             ELSE Loaded(load_state(m, key_seqs).manager,
                         load_state(m, key_seqs).raised, "load_state", None)

refresh_callback_in_load_from_file(m, text) ==
    IF load_from_file(m, text).called = "action_place_ngram"
    THEN refresh_callback_in_place_current_ngram(m)
    ELSE IF load_from_file(m, text).called = "load_state"
    THEN refresh_callback_in_load_state(m, key_seqs_of(text))
    ELSE << >>

\* layouts with one key: their universes have three sequences
SessionLayouts ==
    { [ left |-> Hand([ key \in { 12 } |-> "a" ], << >>, << >>),
        right |-> Hand(<< >>, << >>, << >>) ],
      [ left |-> Hand(<< >>, << >>, << >>),
        right |-> Hand([ key \in { 0 } |-> "b" ], << >>, << >>) ] }

\* the files that an earlier session or an editor may have left: none, one
\* line for each of a few sequences, one blank line
InitialFiles ==
    { FileMissing, << "\n" >> } \cup
        { action_save([ ordered_ngrams |-> key_seqs ]) :
              key_seqs \in UNION { [ 1..n -> ToSet(all_ngrams) \cup { ForeignNgram } ] :
                                       n \in 0..MaxLines } }

\* KeySequenceSortApp.__init__ (the manager constructed), before on_mount()
InitSession ==
    /\ hands \in SessionLayouts
    /\ all_ngrams = create_permutations(hands.left, hands.right, << 1, 2, 3 >>)
    /\ file_out \in InitialFiles
    /\ table = NoTable
    /\ dct = NoDict
    /\ key_seq = << >>
    /\ arguments = << >>
    /\ current_index = Constructed.current_index
    /\ current_ngram = Constructed.current_ngram
    /\ ordered_ngrams = Constructed.ordered_ngrams
    /\ placement_state = Constructed.placement_state
    /\ movement_history = Constructed.movement_history
    /\ last_call = "__init__"
    /\ returned = None
    /\ raised = NoException
    /\ place_run = NotARun
    /\ notified = refresh_callback_in_init

\* on_mount(): first thing after __init__
OnMount ==
    /\ last_call = "__init__"
    /\ Call("load_from_file", load_from_file(Manager, file_out))
    /\ notified' = refresh_callback_in_load_from_file(Manager, file_out)
    /\ UNCHANGED << place_run, hands, key_seq, arguments, file_out, table, dct >>

\* the application is mounted and takes key presses; an exception in
\* on_mount() or in action_save() has ended it
Running ==
    /\ last_call # "__init__"
    /\ ~(last_call \in { "load_from_file", "action_save" } /\ raised # NoException)

ActionLeft ==
    /\ Running
    /\ MayPush(move_left(Manager))
    /\ Call("move_left", move_left(Manager))
    /\ notified' = refresh_callback_in_move_left(Manager)
    /\ UNCHANGED << place_run, hands, key_seq, arguments, file_out, table, dct >>

ActionRight ==
    /\ Running
    /\ MayPush(move_right(Manager))
    /\ Call("move_right", move_right(Manager))
    /\ notified' = refresh_callback_in_move_right(Manager)
    /\ UNCHANGED << place_run, hands, key_seq, arguments, file_out, table, dct >>

ActionPlaceNgram ==
    /\ Running
    /\ Call("action_place_ngram", action_place_ngram(Manager))
    /\ notified' = refresh_callback_in_place_current_ngram(Manager)
    /\ UNCHANGED << place_run, hands, key_seq, arguments, file_out, table, dct >>

ActionMoveBack ==
    /\ Running
    /\ Call("move_back", move_back(Manager))
    /\ notified' = refresh_callback_in_move_back(Manager)
    /\ UNCHANGED << place_run, hands, key_seq, arguments, file_out, table, dct >>

ActionResetCurrentNgram ==
    /\ Running
    /\ Call("reset_current_ngram", reset_current_ngram(Manager))
    /\ notified' = refresh_callback_in_reset_current_ngram(Manager)
    /\ UNCHANGED << place_run, hands, key_seq, arguments, file_out, table, dct >>

ActionPreviousNgram ==
    /\ Running
    /\ Call("previous_ngram", previous_ngram(Manager))
    /\ notified' = refresh_callback_in_previous_ngram(Manager)
    /\ UNCHANGED << place_run, hands, key_seq, arguments, file_out, table, dct >>

ActionSave ==
    /\ Running
    /\ Call("action_save", Outcome(Manager, None, NoException))
    /\ file_out' = action_save(Manager)
    /\ notified' = << >>
    /\ UNCHANGED << place_run, hands, key_seq, arguments, table, dct >>

\* the application ends and a new KeySequenceSortApp is constructed for the
\* same file and layout
Restart ==
    /\ last_call # "__init__"
    /\ Call("__init__", Outcome(Constructed, None, NoException))
    /\ notified' = refresh_callback_in_init
    /\ UNCHANGED << place_run, hands, key_seq, arguments, file_out, table, dct >>

NextSession ==
    \/ OnMount
    \/ ActionLeft
    \/ ActionRight
    \/ ActionPlaceNgram
    \/ ActionMoveBack
    \/ ActionResetCurrentNgram
    \/ ActionPreviousNgram
    \/ ActionSave
    \/ Restart

SpecSession ==
    InitSession /\ [][NextSession]_vars

\* what file_out may hold when action_save() does not run to its end:
\* open(file_out, "w") has emptied the file, and any part of the text, from
\* its start, has reached it
action_save_interrupted(m) ==
    { SubSeq(action_save(m), 1, n) : n \in 0..Len(action_save(m)) }

\* action_save() ended by an OSError of open(), of f.write() or of the
\* closing of the file
ActionSaveInterrupted ==
    /\ Running
    /\ Call("action_save", Outcome(Manager, None, "OSError"))
    /\ file_out' \in action_save_interrupted(Manager)
    /\ notified' = << >>
    /\ UNCHANGED << place_run, hands, key_seq, arguments, table, dct >>

NextInterruptedSave ==
    \/ NextSession
    \/ ActionSaveInterrupted

\* a session whose saving may be interrupted
SpecInterruptedSave ==
    InitSession /\ [][NextInterruptedSave]_vars

---------------------------------------------------------------------------
\* TwoWayDict (textual._two_way_dict) and app/viewer/twowaydict.py

\* the greatest value of a TwoWayDict
MaxValue == 3

\* the row keys of the tests
RowKeys ==
    { "foo", "bar", "baz" }

\* what TwoWayDict.get_key returns for a value that no key has
NoRowKey == "None"

\* the dict d with d[key] = value assigned
setitem(d, key, value) ==
    [ k \in DOMAIN d \cup { key } |-> IF k = key THEN value ELSE d[k] ]

\* the dict d after del d[key]
delitem(d, key) ==
    [ k \in DOMAIN d \ { key } |-> d[k] ]

\* TwoWayDict(initial), for an initial dict without a value held twice
TwoWayDict(initial) ==
    [ forward |-> initial,
      reverse |-> [ value \in { initial[k] : k \in DOMAIN initial } |->
                      CHOOSE k \in DOMAIN initial : initial[k] = value ] ]

\* TwoWayDict.get_key
get_key(d, value) ==
    IF value \in DOMAIN d.reverse THEN d.reverse[value] ELSE NoRowKey

\* TwoWayDict.__setitem__
TwoWayDict_setitem(d, key, value) ==
    [ forward |-> setitem(d.forward, key, value),
      reverse |-> setitem(d.reverse, value, key) ]

\* TwoWayDict.__delitem__, for a key of the dict
TwoWayDict_delitem(d, key) ==
    [ forward |-> delitem(d.forward, key),
      reverse |-> delitem(d.reverse, d.forward[key]) ]

\* the TwoWayDict a call leaves and the exception it raised
Changed(d, exc) ==
    [ dct |-> d, raised |-> exc ]

\* change_twowaydct_value_for_key assigning without the deletion
change_twowaydct_value_for_key_without_del(d, key, newvalue) ==
    IF get_key(d, newvalue) # NoRowKey THEN Changed(d, "ValueError")
    ELSE IF key \notin DOMAIN d.forward THEN Changed(d, "KeyError")
    ELSE Changed(TwoWayDict_setitem(d, key, newvalue), NoException)

change_twowaydct_value_for_key(d, key, newvalue) ==
    IF get_key(d, newvalue) # NoRowKey THEN Changed(d, "ValueError")
    ELSE IF key \notin DOMAIN d.forward THEN Changed(d, "KeyError")
    ELSE Changed(TwoWayDict_setitem(TwoWayDict_delitem(d, key), key, newvalue),
                 NoException)

change_twowaydct_value(d, oldvalue, newvalue) ==
    IF get_key(d, oldvalue) = NoRowKey THEN Changed(d, "ValueError")
    ELSE change_twowaydct_value_for_key(d, get_key(d, oldvalue), newvalue)

\* the dicts from row keys to values up to MaxValue, no value held twice
InitialDicts ==
    UNION { { f \in [ keys -> 0..MaxValue ] :
                \A j, k \in keys : f[j] = f[k] => j = k } : keys \in SUBSET RowKeys }

InitTwoWayDict ==
    /\ dct \in { TwoWayDict(initial) : initial \in InitialDicts }
    /\ table = NoTable
    /\ hands = NoHands
    /\ arguments = << >>
    /\ key_seq = << >>
    /\ all_ngrams = << >>
    /\ current_index = 0
    /\ current_ngram = << >>
    /\ ordered_ngrams = << >>
    /\ placement_state = None
    /\ movement_history = << >>
    /\ last_call = "TwoWayDict"
    /\ returned = None
    /\ raised = NoException
    /\ place_run = NotARun
    /\ notified = << >>
    /\ file_out = FileMissing

ChangeTwowaydctValue ==
    \E oldvalue, newvalue \in 0..MaxValue :
        /\ last_call' = "change_twowaydct_value"
        /\ arguments' = << oldvalue, newvalue >>
        /\ dct' = change_twowaydct_value(dct, oldvalue, newvalue).dct
        /\ raised' = change_twowaydct_value(dct, oldvalue, newvalue).raised
        /\ returned' = None
        /\ UNCHANGED << all_ngrams, current_index, current_ngram, ordered_ngrams,
                        placement_state, movement_history, place_run, notified,
                        hands, key_seq, file_out, table >>

SpecTwoWayDict ==
    InitTwoWayDict /\ [][ChangeTwowaydctValue]_vars

---------------------------------------------------------------------------
\* KeySequenceTable (app/viewer/keyseq_table.py), a textual DataTable.  Of the
\* cells of a row the model keeps the first one, the key indices as text; a
\* table without hands, as the tests make it, leaves the other cells to the
\* layout alone.

\* the most rows a table gets
MaxRows == 3

\* the RowKey objects that DataTable.add_row makes, in the order of their making
RowKeyNames ==
    << "row 1", "row 2", "row 3", "row 4", "row 5", "row 6", "row 7", "row 8" >>

\* the table a call leaves, what the call returned, the exception it raised
\* and what the exception names
Done(t, ret, exc, message) ==
    [ table |-> t, returned |-> ret, raised |-> exc, message |-> message ]

\* the call `then` on the table that `done` left, unless `done` raised
Then(done, then(_)) ==
    IF done.raised # NoException THEN done ELSE then(done.table)

\* KeySequenceTable.__init__
KeySequenceTable ==
    [ rows |-> << >>,
      row_locations |-> TwoWayDict(<< >>),
      table_mode |-> "moving_cursor",
      loaded_permutations |-> { },
      previously_added_row_index |-> 0 - 1,
      currently_placing_key_seq |-> None,
      cursor_row |-> 0 ]

\* DataTable.row_count, which is len(self)
row_count(t) ==
    Cardinality(DOMAIN t.rows)

\* DataTable.is_valid_row_index
is_valid_row_index(t, row_index) ==
    0 <= row_index /\ row_index < row_count(t)

\* the row that DataTable.validate_cursor_coordinate makes of a row, for a
\* table with rows
clamp(t, row) ==
    IF row < 0 THEN 0
    ELSE IF row > row_count(t) - 1 THEN row_count(t) - 1
    ELSE row

\* DataTable.add_row: a new row key, located after the last row
add_row(t, cells, label) ==
    LET row_key == RowKeyNames[row_count(t) + 1]
    IN  [ t EXCEPT
            !.rows = setitem(@, row_key, [ cells |-> cells, label |-> label ]),
            !.row_locations = TwoWayDict_setitem(@, row_key, row_count(t)) ]

\* src_idxs of _bubble_move
src_idxs(old, new) ==
    IF new < old THEN [ i \in 1..(old - new) |-> old - i ]
    ELSE [ i \in 1..(new - old) |-> old + i ]

\* the loop of _bubble_move over src_idxs, dest_idx being src_idx + step
RECURSIVE for_src_idx(_, _, _)
for_src_idx(t, srcs, step) ==
    IF srcs = << >> THEN Done(t, None, NoException, None)
    ELSE LET key == get_key(t.row_locations, srcs[1])
             dest_idx == srcs[1] + step
             changed == change_twowaydct_value_for_key(t.row_locations, key, dest_idx)
         IN  IF key = NoRowKey THEN Done(t, None, "RuntimeError", None)
             ELSE IF changed.raised # NoException
                  THEN Done(t, None, changed.raised, None)
             ELSE for_src_idx([ t EXCEPT !.row_locations = changed.dct,
                                         !.rows[key].label = str(dest_idx + 1) ],
                              Tail(srcs), step)

\* _bubble_move that leaves the labels of the rows in between as they are
_bubble_move_moved_label_only(t, old, new) ==
    LET old_row_key == get_key(t.row_locations, old)
        others == [ i \in 1..Len(src_idxs(old, new)) |->
                      get_key(t.row_locations, src_idxs(old, new)[i]) ]
        step == IF new < old THEN 1 ELSE 0 - 1
    IN  IF old = new THEN Done(t, None, NoException, None)
        ELSE IF old_row_key = NoRowKey THEN Done(t, None, NoException, None)
        ELSE IF \E i \in 1..Len(others) : others[i] = NoRowKey
             THEN Done(t, None, "RuntimeError", None)
        ELSE Done([ t EXCEPT
                      !.row_locations =
                          TwoWayDict(
                              [ k \in DOMAIN t.rows |->
                                  IF k = old_row_key THEN new
                                  ELSE IF \E i \in 1..Len(others) : others[i] = k
                                  THEN t.row_locations.forward[k] + step
                                  ELSE t.row_locations.forward[k] ]),
                      !.rows[old_row_key].label = str(new + 1) ],
                  None, NoException, None)

_bubble_move(t, old, new) ==
    LET old_row_key == get_key(t.row_locations, old)
        deleted == [ t EXCEPT !.row_locations = TwoWayDict_delitem(@, old_row_key) ]
        looped == for_src_idx(deleted, src_idxs(old, new), IF new < old THEN 1 ELSE 0 - 1)
    IN  IF old = new THEN Done(t, None, NoException, None)
        ELSE IF old_row_key = NoRowKey THEN Done(t, None, NoException, None)
        ELSE IF looped.raised # NoException THEN looped
        ELSE Done([ looped.table EXCEPT
                      !.row_locations = TwoWayDict_setitem(@, old_row_key, new),
                      !.rows[old_row_key].label = str(new + 1) ],
                  None, NoException, None)

bubble_move(t, old, new, select) ==
    LET moved == _bubble_move(t, old, new)
    IN  IF moved.raised # NoException \/ ~select THEN moved
        ELSE Done([ moved.table EXCEPT !.cursor_row = clamp(moved.table, new) ],
                  None, NoException, None)

\* ",".join(str(x) for x in key_seq)
key_seq_text(keys) ==
    join(<< "," >>, [ i \in 1..Len(keys) |-> str(keys[i]) ])

change_to_moving_selection(t) ==
    [ t EXCEPT !.table_mode = "moving_selection" ]

change_to_moving_cursor(t) ==
    [ t EXCEPT !.table_mode = "moving_cursor" ]

\* _add_row_with_autolabel, for loc one of "end", "center" and "below_prev"
_add_row_with_autolabel(t, keys, loc, select_added_row, to_moving_selection) ==
    LET length_before == row_count(t)
        length_new == length_before + 1
        added == add_row([ t EXCEPT !.currently_placing_key_seq = key_seq_text(keys) ],
                         key_seq_text(keys), str(length_before + 1))
        below_prev == loc = "below_prev" /\ t.previously_added_row_index >= 0
        new == IF below_prev
               THEN (IF t.previously_added_row_index + 1 < length_new - 1
                     THEN t.previously_added_row_index + 1
                     ELSE length_new - 1)
               ELSE length_new \div 2
        placed == IF loc = "end"
                  THEN (IF select_added_row
                        THEN [ added EXCEPT !.cursor_row = clamp(added, length_new - 1) ]
                        ELSE added)
                  ELSE bubble_move(added, length_new - 1, new, select_added_row).table
    IN  IF keys \in t.loaded_permutations THEN Done(t, FALSE, NoException, None)
        ELSE IF to_moving_selection
        THEN Done(change_to_moving_selection(placed), TRUE, NoException, None)
        ELSE Done(placed, TRUE, NoException, None)

\* _swap_current_row_with(Coordinate(new_row, column))
_swap_current_row_with(t, new_row) ==
    LET current_key == get_key(t.row_locations, t.cursor_row)
        new_key == get_key(t.row_locations, new_row)
    IN  IF ~is_valid_row_index(t, t.cursor_row)
        THEN Done(t, None, "CellDoesNotExist", None)
        ELSE IF ~is_valid_row_index(t, new_row) THEN Done(t, None, NoException, None)
        ELSE Done([ t EXCEPT !.rows[current_key].cells = t.rows[new_key].cells,
                             !.rows[new_key].cells = t.rows[current_key].cells,
                             !.cursor_row = clamp(t, new_row) ],
                  None, NoException, None)

\* action_cursor_up; DataTable.action_cursor_up moves the cursor
action_cursor_up(t) ==
    IF t.table_mode = "moving_selection"
    THEN _swap_current_row_with(t, t.cursor_row - 1)
    ELSE Done([ t EXCEPT !.cursor_row = clamp(t, t.cursor_row - 1) ],
              None, NoException, None)

\* action_cursor_down; DataTable.action_cursor_down moves the cursor
action_cursor_down(t) ==
    IF t.table_mode = "moving_selection"
    THEN _swap_current_row_with(t, t.cursor_row + 1)
    ELSE Done([ t EXCEPT !.cursor_row = clamp(t, t.cursor_row + 1) ],
              None, NoException, None)

_move_multiple_up_or_down(t, amount, going_up) ==
    LET row_index == t.cursor_row
        target_row ==
            IF going_up
            THEN (IF row_index - amount > 0 THEN row_index - amount ELSE 0)
            ELSE (IF row_index + amount < row_count(t) - 1
                  THEN row_index + amount
                  ELSE row_count(t) - 1)
        moved == bubble_move(t, row_index, target_row, TRUE)
    IN  IF going_up
        THEN Then(Then(moved, action_cursor_down), action_cursor_up)
        ELSE Then(Then(moved, action_cursor_up), action_cursor_down)

\* action_scroll_top; DataTable.action_scroll_top moves the cursor to the top
action_scroll_top(t) ==
    IF t.table_mode = "moving_selection"
    THEN Then(Then(bubble_move(t, t.cursor_row, 0, TRUE), action_cursor_down),
              action_cursor_up)
    ELSE Done([ t EXCEPT !.cursor_row = clamp(t, 0) ], None, NoException, None)

\* action_scroll_bottom; DataTable.action_scroll_bottom moves the cursor to
\* the bottom
action_scroll_bottom(t) ==
    IF t.table_mode = "moving_selection"
    THEN Then(Then(bubble_move(t, t.cursor_row, row_count(t) - 1, TRUE),
                   action_cursor_up),
              action_cursor_down)
    ELSE Done([ t EXCEPT !.cursor_row = clamp(t, row_count(t) - 1) ],
              None, NoException, None)

\* post_message_placed: get_current_row() needs a row under the cursor
post_message_placed(t) ==
    LET placed == [ t EXCEPT !.currently_placing_key_seq = None,
                             !.previously_added_row_index = t.cursor_row ]
    IN  IF is_valid_row_index(t, t.cursor_row)
        THEN Done(placed, None, NoException, None)
        ELSE Done(placed, None, "RowDoesNotExist", None)

action_change_table_mode(t) ==
    IF t.table_mode = "moving_selection"
    THEN Then(post_message_placed(t),
              LAMBDA placed : Done(change_to_moving_cursor(placed),
                                   None, NoException, None))
    ELSE Done(change_to_moving_selection(t), None, NoException, None)

\* the loop of load over the lines of the file
RECURSIVE for_line(_, _, _)
for_line(t, lines, path) ==
    LET line == strip(lines[1])
        tokens == split(line, ",")
        keys == [ i \in 1..Len(tokens) |-> int(tokens[i]) ]
        added == _add_row_with_autolabel(t, keys, "end", FALSE, FALSE).table
    IN  IF lines = << >> THEN Done(t, None, NoException, None)
        ELSE IF line = << >> THEN for_line(t, Tail(lines), path)
        ELSE IF \E i \in 1..Len(tokens) : ~is_int_literal(tokens[i])
             THEN Done(t, None, "ValueError", None)
        ELSE IF keys \in t.loaded_permutations
             THEN Done(t, None, "FileHasDuplicatesError",
                       [ path |-> path, key_seq |-> keys ])
        ELSE for_line([ added EXCEPT !.loaded_permutations = @ \cup { keys } ],
                      Tail(lines), path)

\* load(path, hands), text being what the file of that path holds
load(t, path, text) ==
    IF text = FileMissing THEN Done(t, None, "FileNotFoundError", None)
    ELSE Then(for_line(t, readlines(text), path),
              LAMBDA loaded : Done(change_to_moving_cursor(loaded),
                                   None, NoException, None))

\* the key sequences of the lines of the files
TableKeySeqs ==
    { << 0 >>, << 1 >>, << 0, 1 >> }

\* what KeySequenceTable.save writes for the key sequences: a line for each
lines_of(key_seqs) ==
    chain([ i \in 1..Len(key_seqs) |-> key_seq_text(key_seqs[i]) \o << "\n" >> ])

\* the files a table is loaded from: none, a blank line, the file of
\* test_loading_from_file_with_duplicates, a line that is no key sequence
\* after one that is, and up to MaxLines lines of key sequences
TableFiles ==
    { FileMissing, << "\n" >>, << "0", "\n", "0" >>, << "1", "\n", "x", "\n" >> } \cup
        { lines_of(key_seqs) :
              key_seqs \in UNION { [ 1..n -> TableKeySeqs ] : n \in 0..MaxLines } }

\* a new KeySequenceTable and the file that it may be loaded from
Made(files) ==
    /\ table = KeySequenceTable
    /\ file_out \in files
    /\ dct = NoDict
    /\ hands = NoHands
    /\ arguments = << >>
    /\ key_seq = << >>
    /\ all_ngrams = << >>
    /\ current_index = 0
    /\ current_ngram = << >>
    /\ ordered_ngrams = << >>
    /\ placement_state = None
    /\ movement_history = << >>
    /\ last_call = "KeySequenceTable"
    /\ returned = None
    /\ raised = NoException
    /\ place_run = NotARun
    /\ notified = << >>

\* the method of the table ended with `done`; an exception ends the application
TableCall(method, done) ==
    /\ raised = NoException
    /\ last_call' = method
    /\ table' = done.table
    /\ returned' = done.returned
    /\ raised' = done.raised
    /\ UNCHANGED << all_ngrams, current_index, current_ngram, ordered_ngrams,
                    placement_state, movement_history, place_run, notified,
                    hands, key_seq, arguments, file_out, dct >>

\* add_row_with_autolabel for the next key sequence of one key, as the tests
\* call it
AddRowWithAutolabel ==
    /\ row_count(table) < MaxRows
    /\ \E loc \in { "center", "end", "below_prev" } :
           \E select_added_row, to_moving_selection \in BOOLEAN :
               TableCall("add_row_with_autolabel",
                         _add_row_with_autolabel(table, << row_count(table) >>, loc,
                                                 select_added_row, to_moving_selection))

BubbleMove ==
    /\ row_count(table) > 0
    /\ \E old, new \in (0 - 1)..row_count(table) : \E select \in BOOLEAN :
           TableCall("bubble_move", bubble_move(table, old, new, select))

\* the keys bound to page_up(30) and page_up(300); without a grabbed row
\* DataTable.action_page_up moves the cursor up by the rows the window shows
ActionPageUp ==
    \/ /\ table.table_mode = "moving_selection"
       /\ \E amount \in { 30, 300 } :
              TableCall("action_page_up", _move_multiple_up_or_down(table, amount, TRUE))
    \/ /\ table.table_mode # "moving_selection"
       /\ \E row \in 0..table.cursor_row :
              TableCall("action_page_up",
                        Done([ table EXCEPT !.cursor_row = row ],
                             None, NoException, None))

\* the keys bound to page_down(30) and page_down(300)
ActionPageDown ==
    \/ /\ table.table_mode = "moving_selection"
       /\ \E amount \in { 30, 300 } :
              TableCall("action_page_down",
                        _move_multiple_up_or_down(table, amount, FALSE))
    \/ /\ table.table_mode # "moving_selection"
       /\ \E row \in table.cursor_row..(row_count(table) - 1) :
              TableCall("action_page_down",
                        Done([ table EXCEPT !.cursor_row = row ],
                             None, NoException, None))

ActionScrollTop ==
    \E t \in { table } : TableCall("action_scroll_top", action_scroll_top(t))

ActionScrollBottom ==
    \E t \in { table } : TableCall("action_scroll_bottom", action_scroll_bottom(t))

ActionChangeTableMode ==
    \E t \in { table } : TableCall("action_change_table_mode", action_change_table_mode(t))

\* a table as the tests fill it, row after row
InitTable ==
    Made({ FileMissing })

NextTable ==
    \/ AddRowWithAutolabel
    \/ BubbleMove
    \/ ActionPageUp
    \/ ActionPageDown
    \/ ActionScrollTop
    \/ ActionScrollBottom
    \/ ActionChangeTableMode

SpecTable ==
    InitTable /\ [][NextTable]_vars

\* NgramTableViewerApp.initialize_table: load the file if there is one
Load ==
    /\ last_call = "KeySequenceTable"
    /\ file_out # FileMissing
    /\ TableCall("load", load(table, "file_out", file_out))

\* a table as the viewer fills it, from a file
InitTableLoad ==
    Made(TableFiles)

NextTableLoad ==
    \/ Load
    \/ ActionPageUp
    \/ ActionPageDown
    \/ ActionScrollTop
    \/ ActionScrollBottom
    \/ ActionChangeTableMode

SpecTableLoad ==
    InitTableLoad /\ [][NextTableLoad]_vars

---------------------------------------------------------------------------
\* Properties of the placement manager

\* how often x occurs in the list s
Occurrences(s, x) ==
    Cardinality({ i \in 1..Len(s) : s[i] = x })

\* the list s without its entry at 1-based position k
Without(s, k) ==
    SubSeq(s, 1, k - 1) \o SubSeq(s, k + 1, Len(s))

\* C1: after __init__ and then len(all_ngrams) calls of place_current_ngram(),
\* with no other call in between, ordered_ngrams has len(all_ngrams) entries,
\* is_finished() is true and every sequence of the universe occurs in
\* ordered_ngrams exactly once.
C1_PlaceAllFinishes ==
    place_run = Len(all_ngrams) =>
        /\ Len(ordered_ngrams) = Len(all_ngrams)
        /\ is_finished(Manager)
        /\ \A i \in 1..Len(all_ngrams) : Occurrences(ordered_ngrams, all_ngrams[i]) = 1

C1_Witness ==
    /\ place_run = Len(all_ngrams)
    /\ Len(all_ngrams) >= 3
    /\ last_call = "place_current_ngram"
    /\ returned = all_ngrams[Len(all_ngrams)]

\* C2: in every state that is not finished, place_current_ngram() raises
\* nothing, returns current_ngram, advances the cursor by one and puts
\* current_ngram into ordered_ngrams at the index current_placement_index()
\* gives before the call (0 when it gives None), leaving the other entries in
\* their order: right after left_of_current when there is one, else right
\* before right_of_current when there is one, else into the empty list.
C2_PlaceInsertsAtPlacementIndex ==
    ~is_finished(Manager) =>
        LET out == place_current_ngram(Manager)
            idx == current_placement_index(Manager)
            at == IF idx = NoIndex THEN 0 ELSE idx
            after == out.manager.ordered_ngrams
            left == left_of_current(Manager)
            right == right_of_current(Manager)
        IN  /\ out.raised = NoException
            /\ out.returned = current_ngram
            /\ out.manager.current_index = current_index + 1
            /\ Len(after) = Len(ordered_ngrams) + 1
            /\ after[at + 1] = current_ngram
            /\ Without(after, at + 1) = ordered_ngrams
            /\ left # None => at >= 1 /\ after[at] = left
            /\ (left = None /\ right # None) => after[at + 2] = right
            /\ (left = None /\ right = None) =>
                   ordered_ngrams = << >> /\ after = << current_ngram >>

\* a placement, after a narrowing step, between two ordered sequences
C2_Witness ==
    /\ last_call = "place_current_ngram"
    /\ returned # None
    /\ Len(ordered_ngrams) >= 3
    /\ \E i \in 2..(Len(ordered_ngrams) - 1) :
           /\ ordered_ngrams[i] = returned
           /\ i # ((Len(ordered_ngrams) - 1) \div 2) + 1

\* C3: with nothing narrowed (empty undo history), place_current_ngram() puts
\* current_ngram at index floor(n/2) of the n ordered sequences, so that
\* floor(n/2) of them are before it and the others after it; and three calls
\* of it on a manager constructed over [(0,), (1,), (2,)] give
\* ordered_ngrams == [(1,), (2,), (0,)].
C3_UnnarrowedPlacementAtMidpoint ==
    /\ (~is_finished(Manager) /\ movement_history = << >>) =>
           LET n == Len(ordered_ngrams)
               after == place_current_ngram(Manager).manager.ordered_ngrams
           IN  /\ Len(after) = n + 1
               /\ after[(n \div 2) + 1] = current_ngram
               /\ SubSeq(after, 1, n \div 2) = SubSeq(ordered_ngrams, 1, n \div 2)
               /\ SubSeq(after, (n \div 2) + 2, n + 1)
                      = SubSeq(ordered_ngrams, (n \div 2) + 1, n)
    /\ (all_ngrams = << <<0>>, <<1>>, <<2>> >> /\ place_run = 3) =>
           ordered_ngrams = << <<1>>, <<2>>, <<0>> >>

C3_Witness ==
    /\ all_ngrams = << <<0>>, <<1>>, <<2>> >>
    /\ place_run = 3
    /\ ordered_ngrams = << <<1>>, <<2>>, <<0>> >>

\* C4: in every finished state move_right(), move_left(), move_back(),
\* reset_current_ngram() and place_current_ngram() raise nothing and leave
\* ordered_ngrams, current_ngram, the cursor, the placement state (neighbours
\* and windows) and the undo history as they are; place_current_ngram()
\* returns None.
C4_FinishedCallsAreNoOps ==
    is_finished(Manager) =>
        /\ \A out \in { move_right(Manager), move_left(Manager), move_back(Manager),
                        reset_current_ngram(Manager), place_current_ngram(Manager) } :
               out.manager = Manager /\ out.raised = NoException
        /\ place_current_ngram(Manager).returned = None

\* finished, with an undo history left over that move_back() did not pop
C4_Witness ==
    /\ is_finished(Manager)
    /\ last_call = "move_back"
    /\ movement_history # << >>
    /\ left_of_current(Manager) # None
    /\ right_of_current(Manager) # None

\* C5: load_state(L) raises ValueError whenever the set of L's entries is not
\* the set of the first len(L) sequences of the universe, and then leaves
\* ordered_ngrams, the cursor, current_ngram, the placement state and the undo
\* history as they were.
C5_BadLoadRaisesAndKeepsState ==
    \A L \in LoadArguments :
        ToSet(L) # ToSet(Prefix(all_ngrams, Len(L))) =>
            /\ load_state(Manager, L).raised = "ValueError"
            /\ load_state(Manager, L).manager = Manager

\* a rejected load, while a sequence was being placed after a narrowing step
C5_Witness ==
    /\ last_call = "load_state"
    /\ raised = "ValueError"
    /\ ordered_ngrams # << >>
    /\ movement_history # << >>

\* C6: a load_state(L) that raises nothing makes ordered_ngrams L and the
\* cursor len(L) = N; when N is less than len(all_ngrams), current_ngram is
\* all_ngrams[N], the windows are L[:N//2] and L[N//2:], the neighbours are the
\* last entry of the one and the first of the other (None for an empty
\* window) and the undo history is empty; when N is len(all_ngrams) the
\* manager is finished.
C6_LoadReplacesOrderAndBegins ==
    \A L \in LoadArguments :
        LET out == load_state(Manager, L)
            after == out.manager
            N == Len(L)
            half == N \div 2
        IN  out.raised = NoException =>
                /\ after.ordered_ngrams = L
                /\ after.current_index = N
                /\ N < Len(all_ngrams) =>
                       /\ after.current_ngram = all_ngrams[N + 1]
                       /\ after.movement_history = << >>
                       /\ ngrams_left_side_of_current(after) = SubSeq(L, 1, half)
                       /\ ngrams_right_side_of_current(after) = SubSeq(L, half + 1, N)
                       /\ left_of_current(after) = (IF half >= 1 THEN L[half] ELSE None)
                       /\ right_of_current(after) = (IF N >= 1 THEN L[half + 1] ELSE None)
                /\ N = Len(all_ngrams) => is_finished(after)

\* a load of two sequences, in the other order than the universe's, that is
\* accepted while a third sequence is still to be placed
C6_Witness ==
    /\ last_call = "load_state"
    /\ raised = NoException
    /\ Len(all_ngrams) >= 3
    /\ ~is_finished(Manager)
    /\ ordered_ngrams = << all_ngrams[2], all_ngrams[1] >>
    /\ current_ngram = all_ngrams[3]
    /\ placement_state.highest_low = all_ngrams[2]
    /\ placement_state.lowest_high = all_ngrams[1]

\* C7: whenever the cursor is >= 1, previous_ngram() raises nothing, removes
\* all_ngrams[cursor-1] from ordered_ngrams leaving the others in their order,
\* decrements the cursor, makes the removed sequence current_ngram with the
\* placement state the fresh split of what is left and an empty undo history,
\* and leaves the manager not finished.
C7_PreviousTakesBackLastPlaced ==
    current_index >= 1 =>
        LET out == previous_ngram(Manager)
            after == out.manager
        IN  /\ out.raised = NoException
            /\ current_index <= Len(all_ngrams)
            /\ Occurrences(ordered_ngrams, all_ngrams[current_index]) = 1
            /\ after.ordered_ngrams
                   = Without(ordered_ngrams,
                             index(ordered_ngrams, all_ngrams[current_index]) + 1)
            /\ after.current_index = current_index - 1
            /\ after.current_ngram = all_ngrams[current_index]
            /\ after.placement_state
                   = split_ordered_ngrams_into_two_halfs(after.ordered_ngrams, "right")
            /\ after.movement_history = << >>
            /\ ~is_finished(after)

\* previous_ngram() has raised IndexError, the cursor being beyond the universe
C7_Witness ==
    /\ last_call = "previous_ngram"
    /\ raised = "IndexError"
    /\ current_index > Len(all_ngrams)

\* C8: when the cursor is 0, previous_ngram() and reset_current_ngram() leave
\* the same ordered_ngrams, cursor, current_ngram, placement state and undo
\* history, return the same and raise the same.
C8_PreviousAtStartIsReset ==
    current_index < 1 => previous_ngram(Manager) = reset_current_ngram(Manager)

C8_Witness ==
    /\ last_call = "previous_ngram"
    /\ current_index = 0
    /\ raised = NoException
    /\ current_ngram = all_ngrams[1]
    /\ Len(all_ngrams) >= 2

\* C9: when not finished and there is a left neighbour, move_left() appends
\* the placement state to the undo history and makes the windows the two
\* halves of the left window, the right one larger when its length is odd;
\* when there is a right neighbour, move_right() does so with the halves of
\* the right window, the left one larger; the neighbours are the last entry
\* of the new left and the first of the new right window (None when empty);
\* ordered_ngrams, current_ngram and the cursor stay.
C9_NarrowingSplitsTheWindow ==
    /\ (~is_finished(Manager) /\ left_of_current(Manager) # None) =>
           LET out == move_left(Manager)
               after == out.manager
               w == ngrams_left_side_of_current(Manager)
               k == Len(w) \div 2
           IN  /\ out.raised = NoException
               /\ after.movement_history = Append(movement_history, placement_state)
               /\ ngrams_left_side_of_current(after) = SubSeq(w, 1, k)
               /\ ngrams_right_side_of_current(after) = SubSeq(w, k + 1, Len(w))
               /\ left_of_current(after) = (IF k >= 1 THEN w[k] ELSE None)
               /\ right_of_current(after) = (IF k < Len(w) THEN w[k + 1] ELSE None)
               /\ after.ordered_ngrams = ordered_ngrams
               /\ after.current_ngram = current_ngram
               /\ after.current_index = current_index
    /\ (~is_finished(Manager) /\ right_of_current(Manager) # None) =>
           LET out == move_right(Manager)
               after == out.manager
               w == ngrams_right_side_of_current(Manager)
               k == (Len(w) + 1) \div 2
           IN  /\ out.raised = NoException
               /\ after.movement_history = Append(movement_history, placement_state)
               /\ ngrams_left_side_of_current(after) = SubSeq(w, 1, k)
               /\ ngrams_right_side_of_current(after) = SubSeq(w, k + 1, Len(w))
               /\ left_of_current(after) = (IF k >= 1 THEN w[k] ELSE None)
               /\ right_of_current(after) = (IF k < Len(w) THEN w[k + 1] ELSE None)
               /\ after.ordered_ngrams = ordered_ngrams
               /\ after.current_ngram = current_ngram
               /\ after.current_index = current_index

\* move_left() has just split a left window of odd length, pushing the state
\* it replaced onto a history that was not empty
C9_Witness ==
    /\ last_call = "move_left"
    /\ ~is_finished(Manager)
    /\ Len(movement_history) >= 2
    /\ LET pushed == movement_history[Len(movement_history)]
       IN  /\ Len(pushed.low_effort_sequences) % 2 = 1
           /\ ngrams_left_side_of_current(Manager) \o ngrams_right_side_of_current(Manager)
                  = pushed.low_effort_sequences
           /\ Len(ngrams_right_side_of_current(Manager))
                  = Len(ngrams_left_side_of_current(Manager)) + 1

\* C10: move_left() with no left neighbour, and move_right() with no right
\* neighbour, raise nothing and leave neighbours, windows, current_ngram,
\* ordered_ngrams, the cursor and the undo history as they are.
C10_NarrowingWithoutNeighbourIsNoOp ==
    /\ left_of_current(Manager) = None =>
           move_left(Manager) = Outcome(Manager, None, NoException)
    /\ right_of_current(Manager) = None =>
           move_right(Manager) = Outcome(Manager, None, NoException)

\* move_left() was called with no left neighbour while a sequence was being
\* placed next to an ordered one: had it pushed, the history would not be empty
C10_Witness ==
    /\ last_call = "move_left"
    /\ ~is_finished(Manager)
    /\ left_of_current(Manager) = None
    /\ right_of_current(Manager) # None
    /\ ordered_ngrams # << >>
    /\ movement_history = << >>

\* the narrowing calls
Sides == { "left", "right" }

\* the manager after move_left() or move_right()
Narrowed(m, side) ==
    IF side = "left" THEN move_left(m).manager ELSE move_right(m).manager

\* whether that call narrows: not finished, and a neighbour on that side
Narrows(m, side) ==
    /\ ~is_finished(m)
    /\ IF side = "left" THEN left_of_current(m) # None ELSE right_of_current(m) # None

\* C11: while a sequence is being placed, move_back() raises nothing; with a
\* non-empty undo history it makes the last pushed state the placement state
\* and drops it from the history, changing nothing else; so after one
\* narrowing call it restores the state before that call, after two narrowing
\* calls one move_back() restores the state between them and a second the
\* state before both; with an empty history it changes nothing.
C11_MoveBackUndoesNarrowing ==
    ~is_finished(Manager) =>
        /\ move_back(Manager).raised = NoException
        /\ movement_history = << >> => move_back(Manager).manager = Manager
        /\ movement_history # << >> =>
               move_back(Manager).manager =
                   [ Manager EXCEPT
                       !.placement_state = movement_history[Len(movement_history)],
                       !.movement_history =
                           SubSeq(movement_history, 1, Len(movement_history) - 1) ]
        /\ \A s1 \in Sides :
               Narrows(Manager, s1) =>
                   LET m1 == Narrowed(Manager, s1)
                   IN  /\ move_back(m1) = Outcome(Manager, None, NoException)
                       /\ \A s2 \in Sides :
                              Narrows(m1, s2) =>
                                  LET m2 == Narrowed(m1, s2)
                                  IN  /\ move_back(m2) = Outcome(m1, None, NoException)
                                      /\ move_back(move_back(m2).manager).manager = Manager

\* move_back() has popped the second of two pushed states: one is left, and
\* the placement state is what a narrowing call made of that one
C11_Witness ==
    /\ last_call = "move_back"
    /\ ~is_finished(Manager)
    /\ Len(movement_history) = 1
    /\ Len(ordered_ngrams) = 3
    /\ \E s \in Sides :
           LET before == [ Manager EXCEPT
                             !.placement_state = movement_history[1],
                             !.movement_history = << >> ]
           IN  Narrows(before, s) /\ Narrowed(before, s) = Manager

\* C12: after __init__, after a place_current_ngram() that does not finish,
\* after reset_current_ngram(), previous_ngram() and load_state() that raised
\* nothing and left the manager not finished, current_ngram is
\* all_ngrams[cursor], the windows are ordered_ngrams[:n//2] and
\* ordered_ngrams[n//2:] (the right one larger for odd n), the neighbours are
\* the last entry of the one and the first of the other (None for an empty
\* window), and the undo history is empty; reset_current_ngram() on a manager
\* that is not finished leaves ordered_ngrams and the cursor as they are.
C12_BeginPlacingIsFreshSplit ==
    /\ ( /\ last_call \in { "__init__", "place_current_ngram", "reset_current_ngram",
                            "previous_ngram", "load_state" }
         /\ raised = NoException
         /\ ~is_finished(Manager) ) =>
           LET n == Len(ordered_ngrams)
               half == n \div 2
           IN  /\ current_index < Len(all_ngrams)
               /\ current_ngram = all_ngrams[current_index + 1]
               /\ placement_state.low_effort_sequences = SubSeq(ordered_ngrams, 1, half)
               /\ placement_state.hight_effort_sequences
                      = SubSeq(ordered_ngrams, half + 1, n)
               /\ placement_state.highest_low
                      = (IF half >= 1 THEN ordered_ngrams[half] ELSE None)
               /\ placement_state.lowest_high
                      = (IF n >= 1 THEN ordered_ngrams[half + 1] ELSE None)
               /\ movement_history = << >>
    /\ ~is_finished(Manager) =>
           /\ reset_current_ngram(Manager).raised = NoException
           /\ reset_current_ngram(Manager).manager.ordered_ngrams = ordered_ngrams
           /\ reset_current_ngram(Manager).manager.current_index = current_index
           /\ reset_current_ngram(Manager).manager.movement_history = << >>

\* reset_current_ngram() on three ordered sequences: one to the left, two to
\* the right of the sequence being placed
C12_Witness ==
    /\ last_call = "reset_current_ngram"
    /\ ~is_finished(Manager)
    /\ Len(ordered_ngrams) = 3
    /\ Len(placement_state.low_effort_sequences) = 1
    /\ Len(placement_state.hight_effort_sequences) = 2
    /\ movement_history = << >>

\* the number of ordered sequences still in play: both windows together
InPlay(m) ==
    Len(ngrams_left_side_of_current(m)) + Len(ngrams_right_side_of_current(m))

\* C14, as claimed: every move_left() or move_right() that narrows leaves
\* strictly fewer sequences in play than before.
C14_NarrowingStrictlyShrinks ==
    \A side \in Sides :
        Narrows(Manager, side) => InPlay(Narrowed(Manager, side)) < InPlay(Manager)

\* C14, amended: a move_left() or move_right() that narrows never leaves more
\* sequences in play; it leaves strictly fewer whenever two or more were in
\* play, and leaves the one sequence in play (now on the other side of the
\* sequence being placed) when only one was.
C14_NarrowingShrinksDownToOne ==
    \A side \in Sides :
        Narrows(Manager, side) =>
            LET m == InPlay(Manager)
                after == InPlay(Narrowed(Manager, side))
            IN  /\ m >= 1
                /\ m >= 2 => after < m
                /\ m = 1 => /\ after = 1
                            /\ Narrows(Narrowed(Manager, side),
                                       IF side = "left" THEN "right" ELSE "left")

\* move_right() has narrowed and the one sequence that was in play still is
C14_Witness ==
    /\ last_call = "move_right"
    /\ ~is_finished(Manager)
    /\ movement_history # << >>
    /\ LET pushed == movement_history[Len(movement_history)]
       IN  /\ pushed.low_effort_sequences = << >>
           /\ Len(pushed.hight_effort_sequences) = 1
           /\ placement_state.low_effort_sequences = pushed.hight_effort_sequences
           /\ placement_state.hight_effort_sequences = << >>

\* C16: ordered_ngrams_area_widths() gives (0, 50, 50, 0) when the manager is
\* finished or ordered_ngrams is empty; otherwise, with idx the placement
\* index and n the length of ordered_ngrams, it gives (idx - |left window|,
\* |left window|, |right window|, n - idx - |right window|), four values that
\* are all >= 0 and sum to n.
C16_AreaWidths ==
    LET w == ordered_ngrams_area_widths(Manager)
        idx == current_placement_index(Manager)
        n == Len(ordered_ngrams)
        l == Len(placement_state.low_effort_sequences)
        r == Len(placement_state.hight_effort_sequences)
    IN  /\ is_finished(Manager) \/ ordered_ngrams = << >> => w = << 0, 50, 50, 0 >>
        /\ ~is_finished(Manager) /\ ordered_ngrams # << >> =>
               /\ idx \in 0..n
               /\ w = << idx - l, l, r, n - idx - r >>
               /\ \A i \in 1..4 : w[i] >= 0
               /\ w[1] + w[2] + w[3] + w[4] = n

\* the widths were asked for while placing, with sequences on every side but the last
C16_Witness ==
    /\ last_call = "ordered_ngrams_area_widths"
    /\ ~is_finished(Manager)
    /\ returned = << 1, 1, 1, 0 >>
    /\ Len(ordered_ngrams) = 3

\* the contiguous slices of the list s, the empty one included
Slices(s) ==
    { SubSeq(s, i, j) : i \in 1..(Len(s) + 1), j \in 0..Len(s) }

\* C13: split_ordered_ngrams_into_two_halfs(list, larger_side) gives two
\* halves whose concatenation is the list, the left one of length n // 2, plus
\* 1 only when n is odd and larger_side is left (so the lengths differ by at
\* most 1 and a list of even length splits the same for both sides);
\* highest_low is the last entry of the left half or None when that is empty,
\* lowest_high the first entry of the right half or None when that is empty.
C13_SplitHalves ==
    \A list \in Slices(ordered_ngrams) : \A larger_side \in Sides :
        LET n == Len(list)
            halves == split_ordered_ngrams_into_two_halfs(list, larger_side)
            left == halves.low_effort_sequences
            right == halves.hight_effort_sequences
        IN  /\ left \o right = list
            /\ Len(left) =
                   (n \div 2) + (IF n % 2 = 1 /\ larger_side = "left" THEN 1 ELSE 0)
            /\ Len(left) - Len(right) \in { 0 - 1, 0, 1 }
            /\ n % 2 = 0 =>
                   split_ordered_ngrams_into_two_halfs(list, "left")
                       = split_ordered_ngrams_into_two_halfs(list, "right")
            /\ halves.highest_low = IF left = << >> THEN None ELSE left[Len(left)]
            /\ halves.lowest_high = IF right = << >> THEN None ELSE right[1]

\* move_right() has split a right window of odd length into a larger left half
\* of two or more sequences
C13_Witness ==
    /\ last_call = "move_right"
    /\ ~is_finished(Manager)
    /\ movement_history # << >>
    /\ LET list == movement_history[Len(movement_history)].hight_effort_sequences
       IN  /\ Len(list) % 2 = 1
           /\ Len(list) >= 3
           /\ placement_state = split_ordered_ngrams_into_two_halfs(list, "left")
           /\ Len(placement_state.low_effort_sequences)
                  = Len(placement_state.hight_effort_sequences) + 1
           /\ placement_state.highest_low # placement_state.low_effort_sequences[1]

\* the least k with 2^k >= x, for x >= 1
CeilLog2(x) ==
    CHOOSE k \in 0..x : 2 ^ k >= x /\ \A j \in 0..(k - 1) : 2 ^ j < x

\* the placement indices that at most k effective move_left/move_right calls
\* reach from m
RECURSIVE IndicesWithin(_, _)
IndicesWithin(m, k) ==
    { current_placement_index(m) } \cup
        IF k = 0 THEN { }
        ELSE UNION { IndicesWithin(Narrowed(m, side), k - 1) :
                         side \in { s \in Sides : Narrows(m, s) } }

\* C15: with n >= 1 ordered sequences and a sequence freshly begun, every
\* insertion index 0..n is the placement index after at most ceil(log2(n+1))
\* move_left/move_right calls; each effective call leaves in play at most
\* ceil(m/2) of the m sequences in play before it; for n = 4000 the bound on
\* the calls is 12.
C15_BinarySearchReach ==
    /\ ( /\ ~is_finished(Manager)
         /\ ordered_ngrams # << >>
         /\ movement_history = << >>
         /\ placement_state = split_ordered_ngrams_into_two_halfs(ordered_ngrams, "right") )
       => LET n == Len(ordered_ngrams)
          IN  IndicesWithin(Manager, CeilLog2(n + 1)) = 0..n
    /\ \A side \in Sides :
           Narrows(Manager, side) =>
               InPlay(Narrowed(Manager, side)) <= (InPlay(Manager) + 1) \div 2
    /\ CeilLog2(4000 + 1) = 12

\* the last insertion index of seven ordered sequences, reached with the three
\* calls the bound allows
C15_Witness ==
    /\ Len(ordered_ngrams) = 7
    /\ ~is_finished(Manager)
    /\ last_call = "move_right"
    /\ Len(movement_history) = CeilLog2(7 + 1)
    /\ current_placement_index(Manager) = 7
    /\ movement_history[1] = split_ordered_ngrams_into_two_halfs(ordered_ngrams, "right")

\* C19: every refresh_callback() invocation made by __init__,
\* place_current_ngram, move_left, move_right, move_back, reset_current_ngram,
\* previous_ngram or load_state finds ordered_ngrams, the cursor,
\* current_ngram, the placement state and the undo history with the values
\* they have when that call returns.
C19_CallbackSeesFinalState ==
    LET SeesOnly(seen, out) ==
            \A i \in 1..Len(seen) : out.raised = NoException /\ seen[i] = out.manager
    IN  /\ \A i \in 1..Len(notified) : raised = NoException /\ notified[i] = Manager
        /\ SeesOnly(refresh_callback_in_place_current_ngram(Manager),
                    place_current_ngram(Manager))
        /\ SeesOnly(refresh_callback_in_move_left(Manager), move_left(Manager))
        /\ SeesOnly(refresh_callback_in_move_right(Manager), move_right(Manager))
        /\ SeesOnly(refresh_callback_in_move_back(Manager), move_back(Manager))
        /\ SeesOnly(refresh_callback_in_reset_current_ngram(Manager),
                    reset_current_ngram(Manager))
        /\ SeesOnly(refresh_callback_in_previous_ngram(Manager),
                    previous_ngram(Manager))
        /\ \A new_ordered_ngrams \in LoadArguments :
               SeesOnly(refresh_callback_in_load_state(Manager, new_ordered_ngrams),
                        load_state(Manager, new_ordered_ngrams))
        /\ last_call = "__init__" => notified = << Manager >>

\* previous_ngram() has taken a sequence back, with one sequence still
\* ordered, and has invoked the callback twice
C19_Witness ==
    /\ last_call = "previous_ngram"
    /\ raised = NoException
    /\ Len(notified) = 2
    /\ current_index >= 1
    /\ ~is_finished(Manager)

\* what a new KeySequenceSortApp for the same layout gets from on_mount() when
\* file_out holds what action_save() writes now
Reloaded ==
    load_from_file(Constructed, action_save(Manager))

\* the file action_save() writes holds exactly the sequences of ordered_ngrams,
\* one per line and in ranked order, and not the sequence being placed; a new
\* application loads it without an exception into the same ordered_ngrams
SavedAndReloaded ==
    /\ Len(readlines(action_save(Manager))) = Len(ordered_ngrams)
    /\ is_parsable(action_save(Manager))
    /\ key_seqs_of(action_save(Manager)) = ordered_ngrams
    /\ ~is_finished(Manager) => count(key_seqs_of(action_save(Manager)), current_ngram) = 0
    /\ Reloaded.raised = NoException
    /\ Reloaded.manager.ordered_ngrams = ordered_ngrams
    /\ Reloaded.manager.current_index = current_index
    /\ Reloaded.manager.movement_history = << >>

\* C17, as claimed: saving writes exactly the sequences of ordered_ngrams, one
\* per line in ranked order, without the sequence being placed; loading that
\* file into a new manager over the same universe gives the same
\* ordered_ngrams and the same current_ngram, with the placement state the
\* fresh midpoint split of the loaded list.
C17_SaveLoadRoundTrip ==
    /\ SavedAndReloaded
    /\ Reloaded.manager.current_ngram = current_ngram
    /\ Reloaded.manager.placement_state
           = split_ordered_ngrams_into_two_halfs(ordered_ngrams, "right")

\* C17, amended: saving writes exactly the sequences of ordered_ngrams, one per
\* line in ranked order, without the sequence being placed; loading that file
\* into a new manager over the same universe gives the same ordered_ngrams
\* and cursor and an empty undo history.  When the saved session was not
\* finished it also gives the same current_ngram and the fresh midpoint split
\* of the loaded list; when it was finished the new manager is finished and
\* keeps what __init__ assigned: current_ngram is the first sequence of the
\* universe and the placement state is the split of the empty list.
C17_SaveLoadRoundTripWhilePlacing ==
    /\ SavedAndReloaded
    /\ ~is_finished(Manager) =>
           /\ Reloaded.manager.current_ngram = current_ngram
           /\ Reloaded.manager.placement_state
                  = split_ordered_ngrams_into_two_halfs(ordered_ngrams, "right")
    /\ is_finished(Manager) =>
           /\ is_finished(Reloaded.manager)
           /\ Reloaded.manager.current_ngram = all_ngrams[1]
           /\ Reloaded.manager.placement_state
                  = split_ordered_ngrams_into_two_halfs(<< >>, "right")

\* a new application has loaded the file that holds what action_save() writes
\* for the session it now has: two sequences with a two-digit key, ranked
\* against the order of the universe, the third being placed
C17_Witness ==
    /\ last_call = "load_from_file"
    /\ raised = NoException
    /\ file_out = action_save(Manager)
    /\ file_out = << "1", "2", ",", "1", "2", "\n", "1", "2", "\n" >>
    /\ ordered_ngrams = << all_ngrams[2], all_ngrams[1] >>
    /\ current_ngram = all_ngrams[3]
    /\ notified = << Manager >>

\* some sequence occurs more than once in the file
has_duplicates(text) ==
    /\ text # FileMissing
    /\ is_parsable(text)
    /\ \E i, j \in 1..Len(key_seqs_of(text)) :
           i # j /\ key_seqs_of(text)[i] = key_seqs_of(text)[j]

\* C18: load_from_file() on a file in which some sequence occurs more than
\* once raises DuplicateValuesError naming a sequence that occurs more than
\* once and the file; it does so without calling load_state, so the
\* manager's ordered_ngrams, cursor and placement state stay as they were and
\* nobody is notified.
C18_DuplicatesRaiseBeforeLoadState ==
    /\ has_duplicates(file_out) =>
           LET out == load_from_file(Manager, file_out)
           IN  /\ out.raised = "DuplicateValuesError"
               /\ out.called = "nothing"
               /\ out.manager = Manager
               /\ count(key_seqs_of(file_out), out.message.most_common_ngram) > 1
               /\ out.message.file_out = "file_out"
               /\ refresh_callback_in_load_from_file(Manager, file_out) = << >>
    /\ last_call = "load_from_file" /\ has_duplicates(file_out) =>
           /\ raised = "DuplicateValuesError"
           /\ Manager = Constructed
           /\ notified = << >>

\* on_mount() has failed on a file that holds one sequence of the universe twice
C18_Witness ==
    /\ last_call = "load_from_file"
    /\ raised = "DuplicateValuesError"
    /\ has_duplicates(file_out)
    /\ key_seqs_of(file_out) = << all_ngrams[2], all_ngrams[2] >>
    /\ Manager = Constructed

\* C20: for every key sequence of one key and every layout, with or without
\* finger and matrix-position data, get_repeats_tuple, get_rowdiff and
\* get_direction, of either hand and of both hands together, return None and
\* raise nothing.
C20_UnigramsAreUnclassified ==
    /\ \A keys \in { k \in KeySeqs : Len(k) = 1 } :
           /\ \A hand \in { hands.left, hands.right } :
                  /\ Hand_get_repeats_tuple(hand, keys) = Result(None, NoException)
                  /\ Hand_get_rowdiff(hand, keys) = Result(None, NoException)
                  /\ Hand_get_direction(hand, keys) = Result(NoMember, NoException)
           /\ Hands_get_repeats_tuple(hands, keys) = Result(None, NoException)
           /\ Hands_get_rowdiff(hands, keys) = Result(None, NoException)
           /\ Hands_get_direction(hands, keys) = Result(NoMember, NoException)
    /\ Len(key_seq) = 1 =>
           /\ raised = NoException
           /\ IF last_call \in { "Hand.get_direction", "Hands.get_direction" }
              THEN returned = NoMember
              ELSE returned = None

\* the direction of one key was asked of both hands, each of which knows the
\* finger of that key, one of them its matrix position too
C20_Witness ==
    /\ last_call = "Hands.get_direction"
    /\ key_seq = << 1 >>
    /\ get_finger(hands.left, 1) = Result(Pinky, NoException)
    /\ get_finger(hands.right, 1) = Result(Ring, NoException)
    /\ 1 \in DOMAIN hands.left.matrix_positions
    /\ returned = NoMember
    /\ raised = NoException

---------------------------------------------------------------------------
\* Repeats of a bigram or trigram whose fingers are all known

\* the FingerType of a finger letter of a layout
FingerOfLetter ==
    [ t |-> Thumb, i |-> Index, m |-> Middle, r |-> Ring, p |-> Pinky ]

\* the hand assigns a finger to every key of keys
AllFingersKnown(hand, keys) ==
    \A i \in 1..Len(keys) :
        /\ keys[i] \in DOMAIN hand.fingers
        /\ hand.fingers[keys[i]] \in DOMAIN FingerOfLetter

FingerOfKey(hand, key) ==
    FingerOfLetter[hand.fingers[key]]

\* the decision procedure for the repeat of a bigram or trigram
RepeatDecision(hand, keys) ==
    LET f0 == FingerOfKey(hand, keys[1])
        f1 == FingerOfKey(hand, keys[2])
        f2 == FingerOfKey(hand, keys[3])
        k0 == keys[1]
        k1 == keys[2]
        k2 == keys[3]
    IN  IF Len(keys) = 2
        THEN (IF f0 # f1 THEN None
              ELSE IF k0 = k1 THEN << REP, f0 >>
              ELSE << SFB, f0 >>)
        ELSE IF f0 = f2 /\ f2 # f1 THEN << SFS, f0 >>
        ELSE IF f0 = f1 /\ f1 = f2
             THEN (IF k0 = k1 /\ k1 = k2 THEN << REP, f0 >>
                   ELSE IF (k0 = k1) # (k1 = k2) THEN << RSFT, f0 >>
                   ELSE << SFT, f0 >>)
        ELSE IF f0 = f1
             THEN (IF k0 = k1 THEN << REP, f0 >> ELSE << SFB, f0 >>)
        ELSE IF f1 = f2 THEN << SFB, f1 >>
        ELSE None

\* C21: for a bigram or a trigram all of whose keys have a finger in the
\* hand, Hand.get_repeats_tuple returns what the decision procedure gives
\* (different fingers: None; a shared finger: REP, SFB, SFS, RSFT or SFT by
\* the keys, with the shared finger) and raises nothing.
C21_RepeatsFollowTheDecisionProcedure ==
    /\ \A hand \in { hands.left, hands.right } :
           (Len(key_seq) \in { 2, 3 } /\ AllFingersKnown(hand, key_seq)) =>
               Hand_get_repeats_tuple(hand, key_seq)
                   = Result(RepeatDecision(hand, key_seq), NoException)
    /\ ( /\ last_call = "Hand.get_repeats_tuple"
         /\ Len(key_seq) \in { 2, 3 }
         /\ AllFingersKnown(hands.left, key_seq)
         /\ AllFingersKnown(hands.right, key_seq) ) =>
            /\ raised = NoException
            /\ returned \in { RepeatDecision(hands.left, key_seq),
                               RepeatDecision(hands.right, key_seq) }

\* the trigram (1, 2, 2) of a hand with one finger for all keys was found to
\* be a one-finger trigram with a repeat
C21_Witness ==
    /\ last_call = "Hand.get_repeats_tuple"
    /\ key_seq = << 1, 2, 2 >>
    /\ AllFingersKnown(hands.left, key_seq)
    /\ \A key \in DOMAIN hands.left.fingers : hands.left.fingers[key] = "i"
    /\ returned = << RSFT, Index >>
    /\ raised = NoException

---------------------------------------------------------------------------
\* Repeats of a bigram or trigram with a key that has no finger

\* the hand assigns no finger to some key of keys
SomeFingerMissing(hand, keys) ==
    \E i \in 1..Len(keys) : get(hand.fingers, keys[i]) = ""

\* the fingers of the hand are letters of FingerType
FingersAreLetters(hand) ==
    \A key \in DOMAIN hand.fingers : hand.fingers[key] \in DOMAIN FingerOfLetter

\* C22: Hand.get_repeats_tuple returns None and raises nothing for a bigram
\* or trigram one of whose keys has no finger in the hand, also when that key
\* is the middle key of a trigram (stated for hands whose fingers are letters
\* of FingerType).
C22_MissingFingerIsUnclassified ==
    ( /\ last_call = "Hand.get_repeats_tuple"
      /\ Len(key_seq) \in { 2, 3 }
      /\ FingersAreLetters(hands.left)
      /\ FingersAreLetters(hands.right)
      /\ SomeFingerMissing(hands.left, key_seq)
      /\ SomeFingerMissing(hands.right, key_seq) ) =>
        /\ returned = None
        /\ raised = NoException

\* a hand without a finger for key 2 was asked for the repeat of (0, 2, 0)
C22_Witness ==
    /\ last_call = "Hand.get_repeats_tuple"
    /\ key_seq = << 0, 2, 0 >>
    /\ SomeFingerMissing(hands.left, key_seq)
    /\ SomeFingerMissing(hands.right, key_seq)
    /\ returned = << SFS, Ring >>

---------------------------------------------------------------------------
\* Repeats of both hands together

\* the layout with its hands exchanged
Swapped(both) ==
    [ left |-> both.right, right |-> both.left ]

\* (RepeatType, FingerType) pairs in lexicographic order
PairLess(a, b) ==
    \/ a[1] < b[1]
    \/ (a[1] = b[1] /\ a[2] < b[2])

\* C23: when neither hand raises, Hands.get_repeats_tuple returns None iff
\* both hands return None, the classification of the one hand that gives
\* one, and otherwise that one of the two (RepeatType, Finger) pairs which
\* is not below the other in lexicographic order, with REP < SFS < SFB <
\* RSFT < SFT and Thumb < Index < Middle < Ring < Pinky; (SFS, Pinky) and
\* (SFT, Index) give (SFT, Index); exchanging the hands changes nothing.
C23_TwoHandRepeatsIsTheGreater ==
    LET left == Hand_get_repeats_tuple(hands.left, key_seq)
        right == Hand_get_repeats_tuple(hands.right, key_seq)
        result == Hands_get_repeats_tuple(hands, key_seq)
        given == IF last_call = "Hands.get_repeats_tuple" THEN returned
                 ELSE result.returned
    IN  /\ REP < SFS /\ SFS < SFB /\ SFB < RSFT /\ RSFT < SFT
        /\ Thumb < Index /\ Index < Middle /\ Middle < Ring /\ Ring < Pinky
        /\ PairLess(<< SFS, Pinky >>, << SFT, Index >>)
        /\ (left.raised = NoException /\ right.raised = NoException) =>
               /\ result.raised = NoException
               /\ last_call = "Hands.get_repeats_tuple" => raised = NoException
               /\ given = result.returned
               /\ (given = None) <=> (left.returned = None /\ right.returned = None)
               /\ left.returned = None => given = right.returned
               /\ right.returned = None => given = left.returned
               /\ (left.returned # None /\ right.returned # None) =>
                      /\ given \in { left.returned, right.returned }
                      /\ ~PairLess(given, left.returned)
                      /\ ~PairLess(given, right.returned)
               /\ Hands_get_repeats_tuple(Swapped(hands), key_seq).returned = given

\* one hand found (SFS, Pinky) and the other (SFT, Index) in (2, 0, 2), and
\* both hands together gave (SFT, Index)
C23_Witness ==
    /\ last_call = "Hands.get_repeats_tuple"
    /\ key_seq = << 2, 0, 2 >>
    /\ Hand_get_repeats_tuple(hands.left, key_seq).returned = << SFS, Pinky >>
    /\ Hand_get_repeats_tuple(hands.right, key_seq).returned = << SFT, Index >>
    /\ returned = << SFT, Index >>

---------------------------------------------------------------------------
\* The row difference of two fingers

\* the rows of the table: lower finger, higher finger, row difference, type
RowDiffRules ==
    { << Middle, Index, 2, MiddleBelowIndex2u >>,
      << Middle, Pinky, 1, MiddleBelowPinky1u >>,
      << Middle, Pinky, 2, MiddleBelowPinky2u >>,
      << Pinky, Ring, 2, PinkyBelowRing2u >>,
      << Ring, Pinky, 1, RingBelowPinky1u >>,
      << Ring, Pinky, 2, RingBelowPinky2u >>,
      << Index, Pinky, 2, IndexBelowPinky2u >>,
      << Middle, Ring, 2, MiddleBelowRing2u >> }

\* what the table gives for a lower and a higher finger `diff` rows apart
RowDiffOfTable(lower, higher, diff) ==
    IF \E rule \in RowDiffRules : << rule[1], rule[2], rule[3] >> = << lower, higher, diff >>
    THEN (CHOOSE rule \in RowDiffRules :
              << rule[1], rule[2], rule[3] >> = << lower, higher, diff >>)[4]
    ELSE IF diff = 2 /\ ~\E rule \in RowDiffRules : << rule[1], rule[2] >> = << lower, higher >>
    THEN RowDiff2u
    ELSE NoMember

\* C24: get_rowdiff_for_bigram returns None for two equal rows and otherwise
\* the type the table gives for the finger of the greater row (the lower
\* one), the finger of the smaller row and the difference of the rows:
\* RowDiff2u two rows apart for a pair without a rule of its own, None where
\* no rule applies; exchanging the two (finger, row) arguments changes
\* nothing.
C24_RowDiffFollowsTheTable ==
    last_call = "get_rowdiff_for_bigram" =>
        LET finger1 == arguments[1]
            row1 == arguments[2]
            finger2 == arguments[3]
            row2 == arguments[4]
        IN  /\ raised = NoException
            /\ row1 = row2 => returned = NoMember
            /\ row1 > row2 => returned = RowDiffOfTable(finger1, finger2, row1 - row2)
            /\ row2 > row1 => returned = RowDiffOfTable(finger2, finger1, row2 - row1)
            /\ get_rowdiff_for_bigram(finger2, row2, finger1, row1) = returned

\* the pinky two rows below the ring finger, given as the second argument
C24_Witness ==
    /\ last_call = "get_rowdiff_for_bigram"
    /\ arguments = << Ring, 0, Pinky, 2 >>
    /\ returned = PinkyBelowRing2u

---------------------------------------------------------------------------
\* Row differences of a trigram

\* the row differences of a hand for the bigram (first, second), as a
\* tuple: empty when the bigram is unclassified
RowdiffOfBigram(hand, first, second) ==
    IF Hand_get_rowdiff(hand, << first, second >>).returned = None THEN << >>
    ELSE Hand_get_rowdiff(hand, << first, second >>).returned

\* the row differences of the two bigrams of a trigram, one after the other
RowdiffOfBothBigrams(hand, keys) ==
    IF RowdiffOfBigram(hand, keys[1], keys[2]) \o RowdiffOfBigram(hand, keys[2], keys[3]) = << >>
    THEN None
    ELSE RowdiffOfBigram(hand, keys[1], keys[2]) \o RowdiffOfBigram(hand, keys[2], keys[3])

\* C25: for a trigram, Hand.get_rowdiff returns the row differences of its
\* bigrams (0,1) and (1,2), each classified on its own: both in order, the
\* one that classifies when the other does not (also when the other does not
\* for want of a finger or a matrix position of one of its keys), None when
\* neither does (stated for hands whose fingers are letters of FingerType).
C25_TrigramRowdiffIsPerBigram ==
    ( /\ last_call = "Hand.get_rowdiff"
      /\ Len(key_seq) = 3
      /\ FingersAreLetters(hands.left)
      /\ FingersAreLetters(hands.right) ) =>
        /\ raised = NoException
        /\ returned \in { RowdiffOfBothBigrams(hands.left, key_seq),
                           RowdiffOfBothBigrams(hands.right, key_seq) }
        /\ \A hand \in { hands.left, hands.right } :
               Hand_get_rowdiff(hand, key_seq)
                   = Result(RowdiffOfBothBigrams(hand, key_seq), NoException)

\* (0, 1, 2) was classified by a hand with the ring finger two rows below
\* the pinky in (0, 1) and no finger for key 2, and by one with the middle
\* finger two rows below the ring finger in (0, 1) and no position for key 2
C25_Witness ==
    /\ last_call = "Hand.get_rowdiff"
    /\ key_seq = << 0, 1, 2 >>
    /\ Hand_get_rowdiff(hands.left, << 0, 1 >>).returned = << MiddleBelowRing2u >>
    /\ 2 \notin DOMAIN hands.left.matrix_positions
    /\ Hand_get_rowdiff(hands.right, << 0, 1 >>).returned = << RingBelowPinky2u >>
    /\ 2 \notin DOMAIN hands.right.fingers
    /\ returned = None

---------------------------------------------------------------------------
\* Row differences of both hands together

\* C26: when neither hand raises, Hands.get_rowdiff returns None iff both
\* hands return None, the tuple of the one hand that gives one, the common
\* tuple when the hands agree, and otherwise one of the two tuples whose
\* greatest RowDiffType is not below the other's; the result so holds the
\* greatest RowDiffType that either hand found.
C26_TwoHandRowdiffHoldsTheGreatest ==
    LET left == Hand_get_rowdiff(hands.left, key_seq)
        right == Hand_get_rowdiff(hands.right, key_seq)
        result == Hands_get_rowdiff(hands, key_seq)
        given == IF last_call = "Hands.get_rowdiff" THEN returned ELSE result.returned
    IN  (left.raised = NoException /\ right.raised = NoException) =>
            /\ result.raised = NoException
            /\ last_call = "Hands.get_rowdiff" => raised = NoException
            /\ given = result.returned
            /\ (given = None) <=> (left.returned = None /\ right.returned = None)
            /\ left.returned = None => given = right.returned
            /\ right.returned = None => given = left.returned
            /\ left.returned = right.returned => given = left.returned
            /\ (left.returned # None /\ right.returned # None) =>
                   /\ given \in { left.returned, right.returned }
                   /\ \A found \in ToSet(left.returned) \cup ToSet(right.returned) :
                          \E held \in ToSet(given) : held >= found
                   /\ \E held \in ToSet(given) :
                          \A found \in ToSet(left.returned) \cup ToSet(right.returned) :
                              held >= found

\* one hand found (MiddleBelowPinky1u, RowDiff2u) and the other (RowDiff2u,
\* MiddleBelowRing2u) in (2, 0, 1), and both hands together gave the latter
C26_Witness ==
    /\ last_call = "Hands.get_rowdiff"
    /\ key_seq = << 2, 0, 1 >>
    /\ Hand_get_rowdiff(hands.left, key_seq).returned = << MiddleBelowPinky1u, RowDiff2u >>
    /\ Hand_get_rowdiff(hands.right, key_seq).returned = << RowDiff2u, MiddleBelowRing2u >>
    /\ returned = << RowDiff2u, MiddleBelowRing2u >>

---------------------------------------------------------------------------
\* The direction of two and of three fingers

\* the in and out rolls: first finger, second finger, DirectionType
RollRules ==
    { << Pinky, Ring, InwardsPinkyRing >>,
      << Pinky, Middle, InwardsPinkyMiddle >>,
      << Middle, Pinky, OutwardsMiddlePinky >>,
      << Ring, Pinky, OutwardsRingPinky >> }

RollOf(first, second) ==
    IF \E rule \in RollRules : << rule[1], rule[2] >> = << first, second >>
    THEN (CHOOSE rule \in RollRules : << rule[1], rule[2] >> = << first, second >>)[3]
    ELSE NoMember

\* the place of a finger from the pinky inwards; the thumb has none
Lateral(finger) ==
    IF finger = Pinky THEN 1
    ELSE IF finger = Ring THEN 2
    ELSE IF finger = Middle THEN 3
    ELSE IF finger = Index THEN 4
    ELSE 0

\* three different fingers, none the thumb, the second of which does not
\* lie between the first and the third
ChangesDirection(first, second, third) ==
    /\ Cardinality({ first, second, third }) = 3
    /\ Thumb \notin { first, second, third }
    /\ ~(Lateral(first) < Lateral(second) /\ Lateral(second) < Lateral(third))
    /\ ~(Lateral(first) > Lateral(second) /\ Lateral(second) > Lateral(third))

\* C27: get_direction_for_bigram gives InwardsPinkyRing for (Pinky, Ring),
\* InwardsPinkyMiddle for (Pinky, Middle), OutwardsMiddlePinky for (Middle,
\* Pinky), OutwardsRingPinky for (Ring, Pinky) and None for any other pair;
\* for three fingers that are no redirect (a finger twice, a thumb, or one
\* lateral direction) get_direction_for_trigram gives the greater direction
\* of its two bigrams, the only one, or None, in the order Redirect1 <
\* InwardsPinkyMiddle < InwardsPinkyRing < OutwardsMiddlePinky < Redirect2 <
\* OutwardsRingPinky < Redirect3 < Redirect4.
C27_DirectionOfBigramsAndPlainTrigrams ==
    /\ Redirect1 < InwardsPinkyMiddle /\ InwardsPinkyMiddle < InwardsPinkyRing
    /\ InwardsPinkyRing < OutwardsMiddlePinky /\ OutwardsMiddlePinky < Redirect2
    /\ Redirect2 < OutwardsRingPinky /\ OutwardsRingPinky < Redirect3
    /\ Redirect3 < Redirect4
    /\ last_call = "get_direction_for_bigram" =>
           /\ raised = NoException
           /\ returned = RollOf(arguments[1], arguments[2])
    /\ ( /\ last_call = "get_direction_for_trigram"
         /\ ~ChangesDirection(arguments[1], arguments[2], arguments[3]) ) =>
            LET first == RollOf(arguments[1], arguments[2])
                second == RollOf(arguments[2], arguments[3])
            IN  /\ raised = NoException
                /\ returned \in { first, second }
                /\ returned >= first
                /\ returned >= second

\* middle, pinky, middle: out to the pinky and in again, the outward roll
\* being the greater
C27_Witness ==
    /\ last_call = "get_direction_for_trigram"
    /\ arguments = << Middle, Pinky, Middle >>
    /\ returned = OutwardsMiddlePinky

---------------------------------------------------------------------------
\* Redirects

Redirects ==
    { Redirect1, Redirect2, Redirect3, Redirect4 }

\* the level of a redirect by the fingers involved
RedirectLevel(first, second, third) ==
    IF Pinky \notin { first, second, third } THEN Redirect1
    ELSE IF second = Index THEN Redirect2
    ELSE IF Index \in { first, third } THEN Redirect3
    ELSE Redirect4

\* the triples of the DirectionType table that keep one lateral direction,
\* with their rolls
MonotonicTriples ==
    { << Pinky, Ring, Middle, InwardsPinkyRing >>,
      << Pinky, Ring, Index, InwardsPinkyRing >>,
      << Pinky, Middle, Index, InwardsPinkyMiddle >>,
      << Middle, Ring, Pinky, OutwardsRingPinky >>,
      << Index, Ring, Pinky, OutwardsRingPinky >>,
      << Index, Middle, Pinky, OutwardsMiddlePinky >>,
      << Ring, Middle, Index, NoMember >>,
      << Index, Middle, Ring, NoMember >> }

\* C28: for three different fingers among pinky, ring, middle and index,
\* get_direction_for_trigram gives a redirect exactly when the second finger
\* does not lie between the first and the third in the order pinky, ring,
\* middle, index: Redirect1 without a pinky, Redirect2 with a pinky and the
\* index second, Redirect3 with a pinky and the index first or third,
\* Redirect4 without an index; the 8 other triples get the roll, or None,
\* of the DirectionType table.
C28_RedirectsAreDirectionChanges ==
    ( /\ last_call = "get_direction_for_trigram"
      /\ Cardinality({ arguments[1], arguments[2], arguments[3] }) = 3
      /\ Thumb \notin { arguments[1], arguments[2], arguments[3] } ) =>
        LET first == arguments[1]
            second == arguments[2]
            third == arguments[3]
        IN  /\ raised = NoException
            /\ returned \in Redirects <=> ChangesDirection(first, second, third)
            /\ ChangesDirection(first, second, third) =>
                   returned = RedirectLevel(first, second, third)
            /\ ~ChangesDirection(first, second, third) =>
                   << first, second, third, returned >> \in MonotonicTriples

\* ring, pinky, index: a change of direction with a pinky and the index last
C28_Witness ==
    /\ last_call = "get_direction_for_trigram"
    /\ arguments = << Ring, Pinky, Index >>
    /\ returned = Redirect3

---------------------------------------------------------------------------
\* Key sequences of more than three keys

ClassificationCalls ==
    { "Hand.get_repeats_tuple", "Hand.get_rowdiff", "Hand.get_direction",
      "Hands.get_repeats_tuple", "Hands.get_rowdiff", "Hands.get_direction" }

\* C29: each classification of a hand or of both hands raises an error for
\* a key sequence of more than three keys, whatever fingers and matrix
\* positions the layout has.
C29_LongSequencesRaise ==
    (last_call \in ClassificationCalls /\ Len(key_seq) > 3) =>
        raised # NoException

\* the repeat of four keys was asked of a layout without fingers, and None
\* came back
C29_Witness ==
    /\ last_call = "Hands.get_repeats_tuple"
    /\ Len(key_seq) = 4
    /\ hands.left.fingers = << >>
    /\ hands.right.fingers = << >>
    /\ returned = None
    /\ raised = NoException

---------------------------------------------------------------------------
\* The order of the permutations

\* some hand has a symbol for every key of the tuple
Typable(both, keys) ==
    \/ ToSet(keys) \subseteq DOMAIN both.left.symbols
    \/ ToSet(keys) \subseteq DOMAIN both.right.symbols

\* a comes before b, tuples of one length, in lexicographic order of keys
LexLess(a, b) ==
    \E i \in 1..Len(a) :
        /\ a[i] < b[i]
        /\ \A j \in 1..(i - 1) : a[j] = b[j]

\* the typable tuples of one length over the keys of both hands
TypableOfLength(both, n) ==
    { keys \in [ 1..n -> DOMAIN both.left.symbols \cup DOMAIN both.right.symbols ] :
          Typable(both, keys) }

\* how many tuples the lengths before the i-th one of lengths account for
RECURSIVE TuplesBefore(_, _, _)
TuplesBefore(both, lengths, i) ==
    IF i = 1 THEN 0
    ELSE TuplesBefore(both, lengths, i - 1)
             + Cardinality(TypableOfLength(both, lengths[i - 1]))

\* the part of permutations that the i-th one of lengths accounts for
TuplesOfLength(both, lengths, i, permutations) ==
    SubSeq(permutations, TuplesBefore(both, lengths, i) + 1,
           TuplesBefore(both, lengths, i + 1))

\* C30: create_permutations returns, for each length of sequence_lengths in
\* the order given, the typable tuples of that length in lexicographic order
\* of key indices; with the lengths (1, 2, 3) all tuples of one key come
\* first, then those of two, then those of three; left keys {0,1,2} and right
\* keys {0,1,2,3} with lengths (1,) give [(0,),(1,),(2,),(3,)].
C30_PermutationsLengthAfterLength ==
    last_call = "create_permutations" =>
        /\ raised = NoException
        /\ Len(returned) = TuplesBefore(hands, arguments, Len(arguments) + 1)
        /\ \A i \in 1..Len(arguments) :
               LET tuples == TuplesOfLength(hands, arguments, i, returned)
               IN  /\ ToSet(tuples) = TypableOfLength(hands, arguments[i])
                   /\ \A k \in 1..(Len(tuples) - 1) : LexLess(tuples[k], tuples[k + 1])
        /\ arguments = << 1, 2, 3 >> =>
               \A i, j \in 1..Len(returned) : i < j => Len(returned[i]) <= Len(returned[j])
        /\ arguments = << 1 >> =>
               returned = [ i \in 1..Len(returned) |->
                              << sorted(DOMAIN hands.left.symbols
                                            \cup DOMAIN hands.right.symbols)[i] >> ]

\* the permutations of one key for a left hand with the keys 0, 1, 2 and a
\* right hand with the keys 0, 1, 2, 3
C30_Witness ==
    /\ last_call = "create_permutations"
    /\ arguments = << 1 >>
    /\ DOMAIN hands.left.symbols = { 0, 1, 2 }
    /\ DOMAIN hands.right.symbols = { 0, 1, 2, 3 }
    /\ returned = << << 0 >>, << 1 >>, << 2 >>, << 3 >> >>

---------------------------------------------------------------------------
\* The members of the permutations

\* the tuples, of the lengths given, of keys of either hand
TuplesOverUnion(both, lengths) ==
    UNION { [ 1..n -> DOMAIN both.left.symbols \cup DOMAIN both.right.symbols ] :
                n \in ToSet(lengths) }

\* the tuple has a key of the left hand alone and a key of the right hand alone
MixesHands(both, keys) ==
    /\ ToSet(keys) \cap (DOMAIN both.left.symbols \ DOMAIN both.right.symbols) # { }
    /\ ToSet(keys) \cap (DOMAIN both.right.symbols \ DOMAIN both.left.symbols) # { }

\* C31: a tuple over the union of the key indices of both hands, of one of the
\* (distinct) lengths asked for, is in the list create_permutations returns
\* exactly once if some hand alone has a symbol for every key of the tuple,
\* and is not in the list otherwise; a tuple with a key of the left hand alone
\* and a key of the right hand alone is not in the list.
C31_TypableTuplesExactlyOnce ==
    last_call = "create_permutations" =>
        \A keys \in TuplesOverUnion(hands, arguments) :
            /\ Occurrences(returned, keys) = (IF Typable(hands, keys) THEN 1 ELSE 0)
            /\ MixesHands(hands, keys) => Occurrences(returned, keys) = 0

\* permutations of a layout with a key of the left hand alone and a key of
\* the right hand alone, which hold a typable pair of keys and leave out the
\* pair of the two keys
C31_Witness ==
    /\ last_call = "create_permutations"
    /\ 2 \in ToSet(arguments)
    /\ \E l \in DOMAIN hands.left.symbols \ DOMAIN hands.right.symbols :
           \E r \in DOMAIN hands.right.symbols \ DOMAIN hands.left.symbols :
               /\ Occurrences(returned, << l, r >>) = 0
               /\ Occurrences(returned, << l, l >>) = 1
               /\ Occurrences(returned, << r, r >>) = 1

---------------------------------------------------------------------------
\* The invariant of the placement manager

\* C32: after any sequence of public operations of a manager over distinct
\* sequences (load_state with any argument among them, accepted or rejected)
\* the cursor equals len(ordered_ngrams) and is at most len(all_ngrams),
\* ordered_ngrams holds each of the first `cursor` sequences of all_ngrams
\* exactly once and nothing else, while not finished current_ngram is
\* all_ngrams[cursor] and is not in ordered_ngrams, and previous_ngram() does
\* not fail.
C32_ManagerInvariant ==
    /\ current_index = Len(ordered_ngrams)
    /\ current_index <= Len(all_ngrams)
    /\ ToSet(ordered_ngrams) = ToSet(Prefix(all_ngrams, current_index))
    /\ \A i \in 1..current_index : Occurrences(ordered_ngrams, all_ngrams[i]) = 1
    /\ ~is_finished(Manager) =>
           /\ current_ngram = all_ngrams[current_index + 1]
           /\ current_ngram \notin ToSet(ordered_ngrams)
    /\ previous_ngram(Manager).raised = NoException

\* load_state has accepted a list that holds a sequence twice, and the cursor
\* is beyond the universe
C32_Witness ==
    /\ last_call = "load_state"
    /\ raised = NoException
    /\ \E i, j \in 1..Len(ordered_ngrams) : i # j /\ ordered_ngrams[i] = ordered_ngrams[j]
    /\ current_index > Len(all_ngrams)

---------------------------------------------------------------------------
\* The windows and the neighbours

\* the window is ordered_ngrams[start : start + len(window)]
IsSliceAt(window, start) ==
    /\ start + Len(window) <= Len(ordered_ngrams)
    /\ window = SubSeq(ordered_ngrams, start + 1, start + Len(window))

\* C33: in every reachable state that is not finished, the left window followed
\* by the right window is a contiguous slice of ordered_ngrams, left_of_current
\* is the last sequence of the left window (None if it is empty) and
\* right_of_current the first one of the right window (None if it is empty);
\* whenever both neighbours exist the index of right_of_current is that of
\* left_of_current plus one; both are None only when ordered_ngrams is empty.
C33_WindowsAreOneSlice ==
    ~is_finished(Manager) =>
        LET left == ngrams_left_side_of_current(Manager)
            right == ngrams_right_side_of_current(Manager)
        IN  /\ \E start \in 0..Len(ordered_ngrams) : IsSliceAt(left \o right, start)
            /\ left_of_current(Manager) = (IF left = << >> THEN None ELSE left[Len(left)])
            /\ right_of_current(Manager) = (IF right = << >> THEN None ELSE right[1])
            /\ (left_of_current(Manager) # None /\ right_of_current(Manager) # None) =>
                   index(ordered_ngrams, right_of_current(Manager))
                       = index(ordered_ngrams, left_of_current(Manager)) + 1
            /\ (left_of_current(Manager) = None /\ right_of_current(Manager) = None) =>
                   ordered_ngrams = << >>

\* a narrowed state, not finished, with a neighbour on each side and the two
\* windows not reaching to either end of ordered_ngrams together
C33_Witness ==
    /\ ~is_finished(Manager)
    /\ movement_history # << >>
    /\ left_of_current(Manager) # None
    /\ right_of_current(Manager) # None
    /\ Len(ngrams_left_side_of_current(Manager))
           + Len(ngrams_right_side_of_current(Manager)) < Len(ordered_ngrams)

---------------------------------------------------------------------------
\* Placing and taking back

\* C34: place_current_ngram() followed at once by previous_ngram() leaves
\* ordered_ngrams, the cursor and current_ngram as they were before the
\* placement, whatever narrowing came before it; the placement state is then
\* the fresh split of ordered_ngrams at its midpoint and the undo history is
\* empty, the narrowing from before the placement not being restored.
C34_PlaceThenPreviousRestores ==
    ~is_finished(Manager) =>
        LET placed == place_current_ngram(Manager)
            back == previous_ngram(placed.manager)
        IN  /\ placed.raised = NoException
            /\ placed.returned = current_ngram
            /\ back.raised = NoException
            /\ back.manager.ordered_ngrams = ordered_ngrams
            /\ back.manager.current_index = current_index
            /\ back.manager.current_ngram = current_ngram
            /\ back.manager.placement_state
                   = split_ordered_ngrams_into_two_halfs(ordered_ngrams, "right")
            /\ back.manager.movement_history = << >>

\* a state narrowed to the left of the midpoint, where placing puts
\* current_ngram before the end of ordered_ngrams and taking it back gives a
\* placement state other than the narrowed one
C34_Witness ==
    /\ ~is_finished(Manager)
    /\ movement_history # << >>
    /\ LET placed == place_current_ngram(Manager)
           back == previous_ngram(placed.manager)
       IN  /\ placed.manager.ordered_ngrams # Append(ordered_ngrams, current_ngram)
           /\ Len(placed.manager.ordered_ngrams) = Len(ordered_ngrams) + 1
           /\ back.manager.ordered_ngrams = ordered_ngrams
           /\ back.manager.placement_state # placement_state
           /\ back.manager.movement_history = << >>

---------------------------------------------------------------------------
\* The repeat types and their definitions

\* the hand assigns the finger to the key
OnFinger(hand, key, finger) ==
    get_finger(hand, key) = Result(finger, NoException)

\* two adjacent keys of keys, distinct or identical as asked, are both on the
\* finger
AdjacentOnFinger(hand, keys, finger, distinct) ==
    \E i \in 1..(Len(keys) - 1) :
        /\ (keys[i] # keys[i + 1]) = distinct
        /\ OnFinger(hand, keys[i], finger)
        /\ OnFinger(hand, keys[i + 1], finger)

\* C35: whenever Hand.get_repeats_tuple returns (SFB, F) the key sequence has
\* two adjacent distinct keys that are both assigned to the finger F, and
\* whenever it returns (REP, F) the key sequence has two adjacent identical
\* keys assigned to F.
C35_RepeatTypeMatchesDefinition ==
    ( /\ last_call = "Hand.get_repeats_tuple"
      /\ raised = NoException
      /\ returned # None ) =>
        \A hand \in { hands.left, hands.right } :
            Hand_get_repeats_tuple(hand, key_seq) = Result(returned, raised) =>
                /\ returned[1] = SFB =>
                       AdjacentOnFinger(hand, key_seq, returned[2], TRUE)
                /\ returned[1] = REP =>
                       AdjacentOnFinger(hand, key_seq, returned[2], FALSE)

\* Hand.get_repeats_tuple has returned (SFB, F) for a trigram whose last two
\* keys are one key, the first key being on another finger
C35_Witness ==
    /\ last_call = "Hand.get_repeats_tuple"
    /\ raised = NoException
    /\ Len(key_seq) = 3
    /\ key_seq[1] # key_seq[2]
    /\ key_seq[2] = key_seq[3]
    /\ returned # None
    /\ returned[1] = SFB
    /\ \E hand \in { hands.left, hands.right } :
           /\ OnFinger(hand, key_seq[2], returned[2])
           /\ ~OnFinger(hand, key_seq[1], returned[2])

---------------------------------------------------------------------------
\* Saving, interrupted

\* C36: saving the session is atomic: if action_save() is interrupted at any
\* point, file_out holds either all of what it held before or all of the new
\* listing of ordered_ngrams, never an empty or partly written list.
C36_SaveIsAtomic ==
    [][ last_call' = "action_save" =>
            file_out' \in { file_out, action_save(Manager) } ]_vars

\* action_save() was interrupted with two sequences ranked, and file_out holds
\* the line of the first one only
C36_Witness ==
    /\ last_call = "action_save"
    /\ raised = "OSError"
    /\ Len(ordered_ngrams) = 2
    /\ file_out = action_save([ ordered_ngrams |-> << ordered_ngrams[1] >> ])

---------------------------------------------------------------------------
\* The permutations of the viewer

\* C39: for a layout whose two hands have the same N key indices, the
\* permutations that NgramTableViewerApp makes at its start are exactly
\* N**2 + N sequences, first the N sequences of one key in the order of the
\* key indices, then the sequences of two keys in lexicographic order.
C39_ViewerPermutationsCount ==
    ( /\ last_call = "NgramTableViewerApp.__init__"
      /\ DOMAIN hands.left.symbols = DOMAIN hands.right.symbols ) =>
        LET key_indices == sorted(DOMAIN hands.left.symbols)
            N == Len(key_indices)
        IN  /\ Len(returned) = N * N + N
            /\ \A i \in 1..N : returned[i] = << key_indices[i] >>
            /\ \A i, j \in 1..N :
                   returned[N + (i - 1) * N + j] = << key_indices[i], key_indices[j] >>

\* the viewer has started with a layout whose hands both have the keys 0 and
\* 1: after the two sequences of one key and the four of two keys come the
\* eight sequences of three keys
C39_Witness ==
    /\ last_call = "NgramTableViewerApp.__init__"
    /\ DOMAIN hands.left.symbols = { 0, 1 }
    /\ DOMAIN hands.right.symbols = { 0, 1 }
    /\ SubSeq(returned, 1, 6)
           = << << 0 >>, << 1 >>, << 0, 0 >>, << 0, 1 >>, << 1, 0 >>, << 1, 1 >> >>
    /\ Len(returned) = 14
    /\ returned[7] = << 0, 0, 0 >>

---------------------------------------------------------------------------
\* Changing a value of a TwoWayDict

\* some key of the dict has the value
IsValueOf(d, value) ==
    \E k \in DOMAIN d.forward : d.forward[k] = value

\* the forward and the reverse dict are inverse to each other
MutuallyInverse(d) ==
    /\ \A k \in DOMAIN d.forward :
           d.forward[k] \in DOMAIN d.reverse /\ d.reverse[d.forward[k]] = k
    /\ \A value \in DOMAIN d.reverse :
           d.reverse[value] \in DOMAIN d.forward /\ d.forward[d.reverse[value]] = value

\* C40: change_twowaydct_value(dct, old, new) raises ValueError and leaves dct
\* as it was when old is not a value of dct or new is a value of dct already;
\* otherwise the key that had the value old has the value new, every other
\* entry is as it was, and the forward and the reverse dict are still inverse
\* to each other, with as many entries as before.
C40_ChangeValueKeepsTheDictTwoWay ==
    /\ MutuallyInverse(dct)
    /\ \A old, new \in 0..MaxValue :
           LET out == change_twowaydct_value(dct, old, new)
           IN  IF ~IsValueOf(dct, old) \/ IsValueOf(dct, new)
               THEN out = Changed(dct, "ValueError")
               ELSE /\ out.raised = NoException
                    /\ DOMAIN out.dct.forward = DOMAIN dct.forward
                    /\ \A k \in DOMAIN dct.forward :
                           out.dct.forward[k]
                               = (IF dct.forward[k] = old THEN new ELSE dct.forward[k])
                    /\ MutuallyInverse(out.dct)
                    /\ Cardinality(DOMAIN out.dct.forward)
                           = Cardinality(DOMAIN dct.forward)
                    /\ Cardinality(DOMAIN out.dct.reverse)
                           = Cardinality(DOMAIN dct.reverse)

\* a value of a dict of three entries has been changed: the key "baz" has the
\* new value and no key has the old one
C40_Witness ==
    /\ last_call = "change_twowaydct_value"
    /\ raised = NoException
    /\ DOMAIN dct.forward = RowKeys
    /\ arguments[1] # arguments[2]
    /\ dct.forward["baz"] = arguments[2]
    /\ ~IsValueOf(dct, arguments[1])
    /\ get_key(dct, arguments[2]) = "baz"

---------------------------------------------------------------------------
\* KeySequenceTable.load of a file that holds a sequence twice

\* the key sequences of the lines of the text, in their order; << >> for a
\* file that is missing or has a line that is no key sequence
SequencesOf(text) ==
    LET lines == IF text = FileMissing THEN << >> ELSE readlines(text)
        kept == SelectSeq([ i \in 1..Len(lines) |-> strip(lines[i]) ],
                          LAMBDA line : line # << >>)
    IN  IF \E i \in 1..Len(kept) : \E j \in 1..Len(split(kept[i], ",")) :
               ~is_int_literal(split(kept[i], ",")[j])
        THEN << >>
        ELSE [ i \in 1..Len(kept) |->
                 [ j \in 1..Len(split(kept[i], ",")) |-> int(split(kept[i], ",")[j]) ] ]

\* the sequences that the text holds more than once
Duplicated(text) ==
    { SequencesOf(text)[i] : i \in { i \in 1..Len(SequencesOf(text)) :
          \E j \in 1..(i - 1) : SequencesOf(text)[j] = SequencesOf(text)[i] } }

\* C37: KeySequenceTable.load of a file in which a sequence occurs twice
\* raises FileHasDuplicatesError, the error names a sequence that occurs
\* twice and the path of the file, and no row read from the file remains in
\* the table after the failure.
C37_DuplicatesLoadNothing ==
    last_call = "load" /\ Duplicated(file_out) # { }
        => /\ raised = "FileHasDuplicatesError"
           /\ load(KeySequenceTable, "file_out", file_out).message.path = "file_out"
           /\ load(KeySequenceTable, "file_out", file_out).message.key_seq
                  \in Duplicated(file_out)
           /\ row_count(table) = 0
           /\ table.loaded_permutations = { }

\* a load that failed for a duplicate and left rows of the file in the table
C37_Witness ==
    /\ last_call = "load"
    /\ raised = "FileHasDuplicatesError"
    /\ Duplicated(file_out) # { }
    /\ row_count(table) > 0

\* the part of C37 that the code keeps: the error and what it names
C37_ErrorNamesSequenceAndPath ==
    last_call = "load" /\ Duplicated(file_out) # { }
        => /\ raised = "FileHasDuplicatesError"
           /\ load(KeySequenceTable, "file_out", file_out).message.path = "file_out"
           /\ load(KeySequenceTable, "file_out", file_out).message.key_seq
                  \in Duplicated(file_out)

---------------------------------------------------------------------------
\* KeySequenceTable.bubble_move and the moves of a grabbed row

\* the row keys of the table in the order of their rows
ordered_rows(t) ==
    [ i \in 1..row_count(t) |-> get_key(t.row_locations, i - 1) ]

\* the sequence with its element of index `old` moved to index `new`
Moved(s, old, new) ==
    LET rest == [ i \in 1..(Len(s) - 1) |-> IF i < old + 1 THEN s[i] ELSE s[i + 1] ]
    IN  [ i \in 1..Len(s) |->
            IF i < new + 1 THEN rest[i]
            ELSE IF i = new + 1 THEN s[old + 1]
            ELSE rest[i - 1] ]

\* the row-location map is a bijection from the row keys onto 0..n-1 and
\* every label is the index of its row plus one
WellLocated(t) ==
    /\ MutuallyInverse(t.row_locations)
    /\ DOMAIN t.row_locations.forward = DOMAIN t.rows
    /\ DOMAIN t.row_locations.reverse = 0..(row_count(t) - 1)
    /\ \A key \in DOMAIN t.rows :
           t.rows[key].label = str(t.row_locations.forward[key] + 1)

\* table `after` is table `before` with the row of index `old` at index `new`,
\* the cursor on `cursor` and nothing else changed
OnlyRelocated(before, after, old, new, cursor) ==
    /\ ordered_rows(after) = Moved(ordered_rows(before), old, new)
    /\ WellLocated(after)
    /\ \A key \in DOMAIN before.rows : after.rows[key].cells = before.rows[key].cells
    /\ after = [ before EXCEPT !.rows = after.rows,
                               !.row_locations = after.row_locations,
                               !.cursor_row = cursor ]

\* C38: on a table of n rows, bubble_move(old, new) with 0 <= old, new < n
\* moves the row of index old to index new and changes nothing else: the
\* other rows keep their order, the row-location map stays a bijection from
\* the row keys onto 0..n-1, every label is the index of its row plus one;
\* and moving a grabbed row, the row under the cursor of a table in the mode
\* moving_selection, to the top or to the bottom only relocates it.
C38_BubbleMoveOnlyRelocates ==
    raised = NoException =>
        /\ \A old, new \in 0..(row_count(table) - 1) : \A select \in BOOLEAN :
               /\ bubble_move(table, old, new, select).raised = NoException
               /\ OnlyRelocated(table, bubble_move(table, old, new, select).table,
                                old, new, IF select THEN new ELSE table.cursor_row)
        /\ table.table_mode = "moving_selection"
               /\ is_valid_row_index(table, table.cursor_row) =>
               /\ action_scroll_top(table).raised = NoException
               /\ OnlyRelocated(table, action_scroll_top(table).table,
                                table.cursor_row, 0, 0)
               /\ action_scroll_bottom(table).raised = NoException
               /\ OnlyRelocated(table, action_scroll_bottom(table).table,
                                table.cursor_row, row_count(table) - 1,
                                row_count(table) - 1)

\* the first of three rows has been moved below the other two
C38_Witness ==
    /\ last_call = "bubble_move"
    /\ raised = NoException
    /\ ordered_rows(table) = << "row 2", "row 3", "row 1" >>
    /\ table.rows["row 1"].label = str(3)
====
